---------------------------- MODULE Spec2Model ----------------------------
(***************************************************************************)
(* The provider-dispatch and normalization layer of the Multi-LLM chat and *)
(* translation platform (src/server.js): the /api/chat, /api/translate and *)
(* /api/detect-language handlers, the provider registry (clients,          *)
(* AVAILABLE_MODELS) with /api/models and /api/health, the usage estimator *)
(* and the language table.                                                 *)
(*                                                                         *)
(* Text is a TLA+ string; '' and an absent (undefined) request field are   *)
(* both the empty string, since the handlers only test them with `!x`.     *)
(* Money is an integer: rates in units of 1e-8 dollar per token, the       *)
(* reported cost in units of 1e-6 dollar (toFixed(6)).                     *)
(***************************************************************************)
EXTENDS Integers, Sequences, FiniteSets, TLC

VARIABLES
    env,        \* process.env at startup: the set of credential variables set
    clients,    \* the clients object built at startup from env
    pc,         \* "idle" | "awaiting" (handler suspended at its await) | "done"
    req,        \* the body of the request being handled
    outbound,   \* the outbound provider calls made for this request, in order
    upstream,   \* what the provider answered to the outbound call
    res,        \* the response sent for this request
    estimate,   \* a cost estimate: the token count, the model id and the cost
    conc,       \* the server handling several requests at once: one slot each
    manager,    \* the browser's LLMProvidersManager and its calls in flight
    archive,    \* TranslatorApp.translationHistory, localStorage, the list shown
    ui,         \* the translate page: isTranslating and the request in flight
    detector,   \* the debounced language detection of the translate page
    auth        \* AuthService in memory mode and its calls in flight

\* the variables of the browser-side and AuthService specifications, and of
\* the server handling several requests
others == <<conc, manager, archive, ui, detector, auth>>

vars == <<env, clients, pc, req, outbound, upstream, res, estimate,
          conc, manager, archive, ui, detector, auth>>

\* the value of a variable in the specifications that do not use it
Unused == "unused"

OthersUnused ==
    /\ conc = Unused
    /\ manager = Unused
    /\ archive = Unused
    /\ ui = Unused
    /\ detector = Unused
    /\ auth = Unused

---------------------------------------------------------------------------
(* Bounds of the model *)

\* longest caller-supplied history
MaxHistory == 15

\* how many registerUser and resetPassword calls the service is given
MaxAuthCalls == 2

\* how many language detections the page requests
MaxDetections == 2

\* how many translations the page starts
MaxTranslations == 3

\* how many translations the history is given, earlier visits included
MaxKept == 53

\* how many sendMessage calls the manager makes
MaxSends == 2

\* how many requests the server handles at once
MaxRequests == 2

\* largest token count whose cost is estimated, besides the round thousand
MaxTokens == 60

\* how many times the cost of the same arguments is estimated
MaxCalls == 2

---------------------------------------------------------------------------
(* Static configuration *)

ProviderIds ==
    {"openai", "anthropic", "deepseek", "perplexity", "microsoft", "adobe", "canva"}

EnvVars ==
    {"OPENAI_API_KEY", "ANTHROPIC_API_KEY", "DEEPSEEK_API_KEY", "PERPLEXITY_API_KEY",
     "AZURE_OPENAI_API_KEY", "AZURE_OPENAI_ENDPOINT", "ADOBE_API_KEY", "CANVA_API_KEY",
     "AZURE_SPEECH_KEY", "AZURE_SPEECH_REGION"}

\* the environment variables each key of `clients` is built from
Credentials ==
    [openai     |-> {"OPENAI_API_KEY"},
     anthropic  |-> {"ANTHROPIC_API_KEY"},
     deepseek   |-> {"DEEPSEEK_API_KEY"},
     perplexity |-> {"PERPLEXITY_API_KEY"},
     microsoft  |-> {"AZURE_OPENAI_API_KEY", "AZURE_OPENAI_ENDPOINT"},
     adobe      |-> {"ADOBE_API_KEY"},
     canva      |-> {"CANVA_API_KEY"},
     azureSpeech |-> {"AZURE_SPEECH_KEY", "AZURE_SPEECH_REGION"}]

\* const clients = { openai: KEY ? new OpenAI(..) : null, ... }
MakeClients(e) ==
    [k \in DOMAIN Credentials |->
        IF Credentials[k] \subseteq e THEN "client" ELSE "null"]

\* clients[provider]: a property the object does not have reads as undefined
ClientOf(cl, provider) ==
    IF provider \in DOMAIN cl THEN cl[provider] ELSE "undefined"

AVAILABLE_MODELS ==
    [openai     |-> [m \in {"gpt-4", "gpt-4-turbo", "gpt-3.5-turbo"} |->
                        CASE m = "gpt-4" -> "GPT-4"
                          [] m = "gpt-4-turbo" -> "GPT-4 Turbo"
                          [] m = "gpt-3.5-turbo" -> "GPT-3.5 Turbo"],
     anthropic  |-> [m \in {"claude-3-5-sonnet-20241022", "claude-3-haiku-20240307",
                            "claude-3-sonnet-20240229"} |->
                        CASE m = "claude-3-5-sonnet-20241022" -> "Claude-3.5 Sonnet"
                          [] m = "claude-3-haiku-20240307" -> "Claude-3 Haiku"
                          [] m = "claude-3-sonnet-20240229" -> "Claude-3 Sonnet"],
     deepseek   |-> [m \in {"deepseek-chat", "deepseek-coder"} |->
                        IF m = "deepseek-chat" THEN "Deepseek Chat" ELSE "Deepseek Coder"],
     perplexity |-> [m \in {"sonar", "sonar-pro"} |->
                        IF m = "sonar" THEN "Perplexity Sonar" ELSE "Perplexity Sonar Pro"],
     microsoft  |-> [m \in {"gpt-4o-mini"} |-> "Azure OpenAI GPT-4o Mini"],
     adobe      |-> [m \in {"firefly-image"} |-> "Adobe Firefly Image"],
     canva      |-> [m \in {"design"} |-> "Canva Design"]]

\* AVAILABLE_MODELS[provider]?.[model] is truthy
ModelListed(provider, model) ==
    /\ provider \in DOMAIN AVAILABLE_MODELS
    /\ model \in DOMAIN AVAILABLE_MODELS[provider]

\* isProviderAvailable comparing with undefined instead of null
isProviderAvailableNotUndefined(cl, provider) == ClientOf(cl, provider) # "undefined"

\* return clients[provider] !== null;
isProviderAvailable(cl, provider) == ClientOf(cl, provider) # "null"

\* the body of GET /api/models without the availability test
ModelsBodyUnfiltered(cl) ==
    [provider \in DOMAIN AVAILABLE_MODELS |-> AVAILABLE_MODELS[provider]]

\* the body of GET /api/models: Object.entries(AVAILABLE_MODELS).forEach(...)
\* copies the catalog of every provider that isProviderAvailable
ModelsBody(cl) ==
    [provider \in {p \in DOMAIN AVAILABLE_MODELS : isProviderAvailable(cl, p)} |->
        AVAILABLE_MODELS[provider]]

\* the body of GET /api/health reporting every key as up
HealthBodyAllUp(cl) == [provider \in DOMAIN cl |-> TRUE]

\* the body of GET /api/health: for (const provider of Object.keys(clients))
\* health[provider] = !!clients[provider]
HealthBody(cl) == [provider \in DOMAIN cl |-> cl[provider] # "null"]

---------------------------------------------------------------------------
(* Pure helpers *)

Max(a, b) == IF a >= b THEN a ELSE b
Min(a, b) == IF a <= b THEN a ELSE b

\* Array.prototype.slice(start) with one, possibly negative, argument
Slice(s, start) ==
    LET n == Len(s)
        k == IF start < 0 THEN Max(n + start, 0) ELSE Min(start, n)
    IN  SubSeq(s, k + 1, n)

\* the history.slice(-10) of every chat strategy
HistoryWindow == 10

UserTurn(content) == [role |-> "user", content |-> content]

NotSystem(m) == m.role # "system"

\* ChatMessages with the window one turn too wide: slice(-11)
ChatMessagesWideWindow(provider, message, history) ==
    IF provider = "anthropic"
    THEN SelectSeq(Slice(history, -(HistoryWindow + 1)), NotSystem)
            \o <<UserTurn(message)>>
    ELSE Slice(history, -(HistoryWindow + 1)) \o <<UserTurn(message)>>

\* ChatMessages with the system turns filtered before the history is cut:
\* filter(..).slice(-10)
ChatMessagesFilterFirst(provider, message, history) ==
    IF provider = "anthropic"
    THEN Slice(SelectSeq(history, NotSystem), -HistoryWindow) \o <<UserTurn(message)>>
    ELSE Slice(history, -HistoryWindow) \o <<UserTurn(message)>>

\* ChatMessages with the anthropic strategy's filter left out
ChatMessagesNoFilter(provider, message, history) ==
    Slice(history, -HistoryWindow) \o <<UserTurn(message)>>

\* the messages array each chat strategy builds
ChatMessages(provider, message, history) ==
    IF provider = "anthropic"
    THEN SelectSeq(Slice(history, -HistoryWindow), NotSystem) \o <<UserTurn(message)>>
    ELSE Slice(history, -HistoryWindow) \o <<UserTurn(message)>>


---------------------------------------------------------------------------
(* Text *)

IsSpace(c) == c \in {" ", "\t", "\n", "\r"}

\* String.prototype.trim
Trim(s) ==
    LET kept == {i \in 1..Len(s) : ~IsSpace(SubSeq(s, i, i))}
    IN  IF kept = {} THEN ""
        ELSE SubSeq(s, CHOOSE i \in kept : \A j \in kept : i <= j,
                       CHOOSE i \in kept : \A j \in kept : i >= j)

IsQuote(c) == c \in {"\"", "'"}

\* translatedText.replace(/^["']|["']$/g, ''): one leading and one trailing quote
StripQuotes(s) ==
    LET a == IF Len(s) >= 1 /\ IsQuote(SubSeq(s, 1, 1)) THEN SubSeq(s, 2, Len(s)) ELSE s
    IN  IF Len(a) >= 1 /\ IsQuote(SubSeq(a, Len(a), Len(a)))
        THEN SubSeq(a, 1, Len(a) - 1) ELSE a

UpperCase == <<"A", "B", "C", "D", "E", "F", "G", "H", "I", "J", "K", "L", "M",
               "N", "O", "P", "Q", "R", "S", "T", "U", "V", "W", "X", "Y", "Z">>
LowerCase == <<"a", "b", "c", "d", "e", "f", "g", "h", "i", "j", "k", "l", "m",
               "n", "o", "p", "q", "r", "s", "t", "u", "v", "w", "x", "y", "z">>

LowerChar(c) ==
    IF \E i \in 1..Len(UpperCase) : UpperCase[i] = c
    THEN LowerCase[CHOOSE i \in 1..Len(UpperCase) : UpperCase[i] = c]
    ELSE c

RECURSIVE LowerFrom(_, _)
\* the characters of s from position i on, each in lower case
LowerFrom(s, i) ==
    IF i > Len(s) THEN ""
    ELSE LowerChar(SubSeq(s, i, i)) \o LowerFrom(s, i + 1)

\* String.prototype.toLowerCase
toLowerCase(s) == LowerFrom(s, 1)

\* what `'' + v` gives for a value of each JavaScript type
Stringify(type, text) ==
    CASE type = "string" -> text
      [] type = "null" -> "null"
      [] type = "undefined" -> "undefined"

---------------------------------------------------------------------------
(* Usage estimator *)

\* Math.floor(text.length / 4)
estimateTokensFloor(text) == Len(text) \div 4

\* Math.ceil(text.length / 4)
estimateTokens(text) == (Len(text) + 3) \div 4

\* the costPerToken table, in units of 1e-8 dollar per token
costPerToken ==
    [m \in {"gpt-4", "gpt-4-turbo", "gpt-3.5-turbo", "claude-3-5-sonnet-20241022",
            "claude-3-haiku-20240307", "claude-3-sonnet-20240229",
            "deepseek-chat", "deepseek-coder"} |->
        CASE m = "gpt-4" -> 3000
          [] m = "gpt-4-turbo" -> 1000
          [] m = "gpt-3.5-turbo" -> 200
          [] m = "claude-3-5-sonnet-20241022" -> 1500
          [] m = "claude-3-haiku-20240307" -> 25
          [] m = "claude-3-sonnet-20240229" -> 300
          [] m = "deepseek-chat" -> 140
          [] m = "deepseek-coder" -> 140]

\* the `|| 0.000002` of calculateCost, in units of 1e-8 dollar
DefaultCostPerToken == 200

\* tokens * (costPerToken[model] || 0.000002), in units of 1e-8 dollar
calculateCost(tokens, model) ==
    tokens * (IF model \in DOMAIN costPerToken THEN costPerToken[model]
              ELSE DefaultCostPerToken)

\* The product tokens * rate is a binary double. Where the exact product lies
\* halfway between two micro-dollars (only the 0.00000025 rate gives such
\* products) toFixed rounds the double, which is either the exact half (and
\* goes up) or just under it (and goes down). These are the products under
\* 2500 (100 tokens) whose double is just under the half.
TiesBelowHalf ==
    {50, 250, 350, 550, 650, 750, 850, 950, 1050, 1250, 1350, 1650, 1750, 1850,
     1950, 2150, 2250, 2350, 2450}

\* cost.toFixed(6) cutting the digits off instead of rounding
ToFixed6Truncating(cost) == cost \div 100

\* parseFloat(cost.toFixed(6)), in units of 1e-6 dollar
ToFixed6(cost) ==
    IF cost \in TiesBelowHalf THEN cost \div 100 ELSE (cost + 50) \div 100

\* no estimate asked for: calls counts the times the cost was computed, and
\* cost is -1 until then
NoEstimate == [tokens |-> 0, model |-> "", cost |-> -1, calls |-> 0]

---------------------------------------------------------------------------
(* Language table *)

\* Object.keys(SUPPORTED_LANGUAGES), in insertion order
LanguageCodes ==
    <<"en", "es", "fr", "de", "it", "pt", "ru", "ja", "ko", "zh", "zh-tw",
      "ar", "hi", "nl", "sv", "da", "no", "fi", "pl", "tr", "th", "vi", "id",
      "ms", "tl", "he", "fa", "ur", "bn", "gu", "ta", "te", "kn", "ml", "mr", "pa">>

LanguageNames ==
    <<"English", "Spanish", "French", "German", "Italian", "Portuguese", "Russian",
      "Japanese", "Korean", "Chinese (Simplified)", "Chinese (Traditional)",
      "Arabic", "Hindi", "Dutch", "Swedish", "Danish", "Norwegian", "Finnish",
      "Polish", "Turkish", "Thai", "Vietnamese", "Indonesian", "Malay", "Filipino",
      "Hebrew", "Persian", "Urdu", "Bengali", "Gujarati", "Tamil", "Telugu",
      "Kannada", "Malayalam", "Marathi", "Punjabi">>

SUPPORTED_LANGUAGES ==
    [c \in {LanguageCodes[i] : i \in 1..Len(LanguageCodes)} |->
        LanguageNames[CHOOSE i \in 1..Len(LanguageCodes) : LanguageCodes[i] = c]]

\* SUPPORTED_LANGUAGES[code] || fallback
LanguageOr(code, fallback) ==
    IF code \in DOMAIN SUPPORTED_LANGUAGES THEN SUPPORTED_LANGUAGES[code] ELSE fallback

\* SUPPORTED_LANGUAGES[code].toLowerCase() of every code, in the table's order
LowerNames ==
    [i \in 1..Len(LanguageCodes) |-> toLowerCase(SUPPORTED_LANGUAGES[LanguageCodes[i]])]

\* the lookup comparing the names as they are, without toLowerCase
LanguageCodeOfCaseSensitive(detectedLanguage) ==
    LET hits == {i \in 1..Len(LanguageCodes) :
                    SUPPORTED_LANGUAGES[LanguageCodes[i]] = detectedLanguage}
    IN  IF hits = {} THEN "unknown"
        ELSE LanguageCodes[CHOOSE i \in hits : \A j \in hits : i <= j]

\* Object.keys(SUPPORTED_LANGUAGES).find(code => name matches) || 'unknown'
LanguageCodeOf(detectedLanguage) ==
    LET answer == toLowerCase(detectedLanguage)
        hits == {i \in 1..Len(LanguageCodes) : LowerNames[i] = answer}
    IN  IF hits = {} THEN "unknown"
        ELSE LanguageCodes[CHOOSE i \in hits : \A j \in hits : i <= j]

---------------------------------------------------------------------------
(* Requests, upstream replies and responses *)

ChatStrategies == {"openai", "anthropic", "deepseek", "perplexity", "microsoft"}
TranslateStrategies == {"openai", "anthropic", "deepseek", "perplexity", "microsoft"}
DetectStrategies == {"openai", "anthropic", "deepseek", "perplexity"}

NoReq ==
    [kind |-> "none", provider |-> "", model |-> "", text |-> "", history |-> <<>>,
     sourceLang |-> "", targetLang |-> ""]

\* `text` is the request's message (chat) or text (translate, detect-language)
ChatReq(provider, model, message, history) ==
    [NoReq EXCEPT !.kind = "chat", !.provider = provider, !.model = model,
                  !.text = message, !.history = history]

TranslateReq(provider, model, text, sourceLang, targetLang) ==
    [NoReq EXCEPT !.kind = "translate", !.provider = provider, !.model = model,
                  !.text = text, !.sourceLang = sourceLang, !.targetLang = targetLang]

DetectReq(provider, model, text) ==
    [NoReq EXCEPT !.kind = "detect", !.provider = provider, !.model = model,
                  !.text = text]

\* textType is the JavaScript type of the body's text field: "string", "null",
\* "undefined" (the field is left out of the JSON), or "none" (an error body)
NoRes ==
    [status |-> 0, error |-> "", text |-> "", textType |-> "none",
     tokensUsed |-> 0, cost |-> 0, languageCode |-> "",
     models |-> [p \in {} |-> {}], health |-> [k \in {} |-> FALSE],
     languages |-> [c \in {} |-> ""]]

\* res.status(status).json({}) : an error body without its message
ErrorResNoMessage(status, error) == [NoRes EXCEPT !.status = status]

\* res.status(status).json({ error })
ErrorRes(status, error) == [NoRes EXCEPT !.status = status, !.error = error]

\* an outbound call: the backend it goes to and the body it carries
Call(backend, model, messages) ==
    [backend |-> backend, model |-> model, messages |-> messages]

\* What the upstream answers. kind:
\*   "network_error"  the connection fails (fetch rejects, the SDK throws)
\*   "http_error"     a non-2xx status (response.ok is false, the SDK throws)
\*   "no_choice"      2xx, but choices / content is an empty list
\*   "no_text"        2xx, the first choice / block carries no text
\*   "text"           2xx with the text `text`
Reply(kind, text) == [kind |-> kind, text |-> text]

\* no answer (yet)
NoReply == Reply("none", "")

Failed(reply) == reply.kind \in {"network_error", "http_error"}

\* the message of the Error the SDKs and fetch throw
UpstreamMessage(reply) ==
    IF reply.kind = "network_error" THEN "network error" ELSE "upstream status error"

TypeErrorMessage == "Cannot read properties of undefined"

---------------------------------------------------------------------------
(* Extraction: the text each strategy reads out of the reply, as            *)
(* [threw, error, type, text]                                               *)

Threw(error) == [threw |-> TRUE, error |-> error, type |-> "none", text |-> ""]
Got(type, text) == [threw |-> FALSE, error |-> "", type |-> type, text |-> text]

\* completion.choices[0].message.content, then `trimmed` says whether .trim() follows
SdkOpenai(reply, trimmed) ==
    CASE Failed(reply) -> Threw(UpstreamMessage(reply))
      [] reply.kind = "no_choice" -> Threw(TypeErrorMessage)
      [] reply.kind = "no_text" ->
            IF trimmed THEN Threw(TypeErrorMessage) ELSE Got("null", "")
      [] reply.kind = "text" ->
            Got("string", IF trimmed THEN Trim(reply.text) ELSE reply.text)

\* completion.content[0].text
SdkAnthropic(reply, trimmed) ==
    CASE Failed(reply) -> Threw(UpstreamMessage(reply))
      [] reply.kind = "no_choice" -> Threw(TypeErrorMessage)
      [] reply.kind = "no_text" ->
            IF trimmed THEN Threw(TypeErrorMessage) ELSE Got("undefined", "")
      [] reply.kind = "text" ->
            Got("string", IF trimmed THEN Trim(reply.text) ELSE reply.text)

\* fetch, `if (!resp.ok) throw new Error(httpError)`, then
\* data.choices?.[0]?.message?.content || placeholder   (trimmed: ?.trim() first)
RawFetch(reply, httpError, trimmed, placeholder) ==
    CASE reply.kind = "network_error" -> Threw(UpstreamMessage(reply))
      [] reply.kind = "http_error" -> Threw(httpError)
      [] reply.kind \in {"no_choice", "no_text"} -> Got("string", placeholder)
      [] reply.kind = "text" ->
            LET t == IF trimmed THEN Trim(reply.text) ELSE reply.text
            IN  Got("string", IF t = "" THEN placeholder ELSE t)

callDeepseekChat(reply) ==
    RawFetch(reply, "Deepseek API error: " \o UpstreamMessage(reply), FALSE,
             "Deepseek response unavailable")

---------------------------------------------------------------------------
(* The handlers. Each runs from the request to its await (XxxReceive) and,   *)
(* when the upstream has answered, from the await to the response            *)
(* (XxxFinish). A handler that answers before any await ends in XxxReceive.  *)

Respond(response) == [pc |-> "done", outbound |-> <<>>, res |-> response]
Await(call) == [pc |-> "awaiting", outbound |-> <<call>>, res |-> NoRes]

\* the catch block answering without res.status(500)
CaughtNoStatus(error, fallback) == ErrorRes(200, IF error = "" THEN fallback ELSE error)

\* the catch block: res.status(500).json({ error: error.message || fallback })
Caught(error, fallback) == ErrorRes(500, IF error = "" THEN fallback ELSE error)

\* app.post('/api/chat'), up to the await of the provider call
ChatReceive(cl, r) ==
    IF r.provider = "" \/ r.model = "" \/ r.text = ""
    THEN Respond(ErrorRes(400, "Missing required parameters"))
    ELSE IF ~isProviderAvailable(cl, r.provider)
    THEN Respond(ErrorRes(400, "Provider " \o r.provider \o " is not available"))
    ELSE IF ~ModelListed(r.provider, r.model)
    THEN Respond(ErrorRes(400, "Model " \o r.model \o " not available for " \o r.provider))
    ELSE IF r.provider \in {"openai", "anthropic", "deepseek"}
    THEN Await(Call(r.provider, r.model, ChatMessages(r.provider, r.text, r.history)))
    ELSE IF r.provider = "perplexity"
    THEN IF ClientOf(cl, "perplexity") # "client"
         THEN Respond(Caught("Perplexity not configured", "An error occurred"))
         ELSE Await(Call("perplexity", r.model,
                         ChatMessages("perplexity", r.text, r.history)))
    ELSE IF r.provider = "microsoft"
    THEN IF ClientOf(cl, "microsoft") # "client"
         THEN Respond(Caught("Azure OpenAI not configured", "An error occurred"))
         \* the deployment is in the URL; the body names no model
         ELSE Await(Call("microsoft", "", ChatMessages("microsoft", r.text, r.history)))
    ELSE Respond(Caught("Unsupported provider: " \o r.provider, "An error occurred"))

\* the text the chat strategy of r.provider extracts from the reply
ChatExtract(provider, reply) ==
    CASE provider = "openai" -> SdkOpenai(reply, FALSE)
      [] provider = "anthropic" -> SdkAnthropic(reply, FALSE)
      [] provider = "deepseek" -> callDeepseekChat(reply)
      [] provider = "perplexity" ->
            RawFetch(reply, "Perplexity API error", FALSE, "Perplexity response unavailable")
      [] provider = "microsoft" ->
            RawFetch(reply, "Azure OpenAI error", FALSE, "Azure response unavailable")

\* app.post('/api/chat'), from the await to the response
ChatFinish(r, reply) ==
    LET x == ChatExtract(r.provider, reply)
        tokensUsed == estimateTokens(r.text \o Stringify(x.type, x.text))
    IN  IF x.threw THEN Caught(x.error, "An error occurred")
        ELSE [NoRes EXCEPT !.status = 200, !.text = x.text, !.textType = x.type,
                           !.tokensUsed = tokensUsed,
                           !.cost = ToFixed6(calculateCost(tokensUsed, r.model))]

\* the instruction string built without the test for "auto"
translationPromptAlwaysFrom(text, sourceLang, targetLang) ==
    "Translate the following text from " \o LanguageOr(sourceLang, "auto-detect")
        \o " to " \o LanguageOr(targetLang, targetLang)
        \o ". Only provide the translation, no explanations:\n\n\"" \o text \o "\""

\* the instruction string with a source code the table lacks left as it came
translationPromptRawSource(text, sourceLang, targetLang) ==
    IF sourceLang = "auto"
    THEN "Translate the following text to " \o LanguageOr(targetLang, targetLang)
         \o ". Only provide the translation, no explanations:\n\n\"" \o text \o "\""
    ELSE "Translate the following text from " \o LanguageOr(sourceLang, sourceLang)
         \o " to " \o LanguageOr(targetLang, targetLang)
         \o ". Only provide the translation, no explanations:\n\n\"" \o text \o "\""

\* the instruction string of app.post('/api/translate')
translationPrompt(text, sourceLang, targetLang) ==
    LET sourceLanguage == LanguageOr(sourceLang, "auto-detect")
        targetLanguage == LanguageOr(targetLang, targetLang)
    IN  IF sourceLang = "auto"
        THEN "Translate the following text to " \o targetLanguage
             \o ". Only provide the translation, no explanations:\n\n\"" \o text \o "\""
        ELSE "Translate the following text from " \o sourceLanguage \o " to "
             \o targetLanguage
             \o ". Only provide the translation, no explanations:\n\n\"" \o text \o "\""

\* app.post('/api/translate'), up to the await of the provider call
TranslateReceive(cl, r) ==
    LET prompt == <<UserTurn(translationPrompt(r.text, r.sourceLang, r.targetLang))>>
    IN  IF r.provider = "" \/ r.model = "" \/ r.text = "" \/ r.targetLang = ""
        THEN Respond(ErrorRes(400, "Missing required parameters"))
        ELSE IF ~isProviderAvailable(cl, r.provider)
        THEN Respond(ErrorRes(400, "Provider " \o r.provider \o " is not available"))
        ELSE IF ~ModelListed(r.provider, r.model)
        THEN Respond(ErrorRes(400, "Model " \o r.model \o " not available for "
                                   \o r.provider))
        ELSE IF r.provider \in {"openai", "anthropic"}
        THEN Await(Call(r.provider, r.model, prompt))
        ELSE IF r.provider = "deepseek"
        THEN Await(Call("deepseek", r.model, ChatMessages("deepseek", prompt[1].content, <<>>)))
        ELSE IF r.provider = "perplexity"
        THEN IF ClientOf(cl, "perplexity") # "client"
             THEN Respond(Caught("Perplexity not configured", "Translation failed"))
             ELSE Await(Call("perplexity", r.model, prompt))
        ELSE IF r.provider = "microsoft"
        THEN IF ClientOf(cl, "microsoft") # "client"
             THEN Respond(Caught("Azure OpenAI not configured", "Translation failed"))
             ELSE Await(Call("microsoft", "", prompt))
        ELSE Respond(Caught("Unsupported provider: " \o r.provider, "Translation failed"))

TranslateExtract(provider, reply) ==
    CASE provider = "openai" -> SdkOpenai(reply, TRUE)
      [] provider = "anthropic" -> SdkAnthropic(reply, TRUE)
      [] provider = "deepseek" -> callDeepseekChat(reply)
      [] provider = "perplexity" -> RawFetch(reply, "Perplexity API error", TRUE, "")
      [] provider = "microsoft" -> RawFetch(reply, "Azure OpenAI error", TRUE, "")

\* app.post('/api/translate'), from the await to the response
TranslateFinish(r, reply) ==
    LET x == TranslateExtract(r.provider, reply)
        translatedText == StripQuotes(x.text)
        tokensUsed == estimateTokens(r.text \o translatedText)
    IN  IF x.threw THEN Caught(x.error, "Translation failed")
        ELSE [NoRes EXCEPT !.status = 200, !.text = translatedText, !.textType = "string",
                           !.tokensUsed = tokensUsed,
                           !.cost = ToFixed6(calculateCost(tokensUsed, r.model))]

detectionPrompt(text) ==
    "Detect the language of the following text and respond with only the language name in English (e.g., \"English\", \"Spanish\", \"French\", etc.):\n\n\""
    \o text \o "\""

\* res.json({ detectedLanguage, languageCode: langCode || 'unknown', ... })
DetectRes(detectedLanguage) ==
    [NoRes EXCEPT !.status = 200, !.text = detectedLanguage, !.textType = "string",
                  !.languageCode = LanguageCodeOf(detectedLanguage)]

\* app.post('/api/detect-language'), up to the await of the provider call
DetectReceive(cl, r) ==
    LET prompt == <<UserTurn(detectionPrompt(r.text))>>
    IN  IF r.provider = "" \/ r.model = "" \/ r.text = ""
        THEN Respond(ErrorRes(400, "Missing required parameters"))
        ELSE IF ~isProviderAvailable(cl, r.provider)
        THEN Respond(ErrorRes(400, "Provider " \o r.provider \o " is not available"))
        ELSE IF r.provider \in {"openai", "anthropic"}
        THEN Await(Call(r.provider, r.model, prompt))
        ELSE IF r.provider = "deepseek"
        THEN Await(Call("deepseek", r.model, ChatMessages("deepseek", prompt[1].content, <<>>)))
        ELSE IF r.provider = "perplexity"
        THEN IF ClientOf(cl, "perplexity") # "client"
             THEN Respond(Caught("Perplexity not configured", "Language detection failed"))
             ELSE Await(Call("perplexity", r.model, prompt))
        \* no branch for any other provider: detectedLanguage stays ''
        ELSE Respond(DetectRes(""))

DetectExtract(provider, reply) ==
    CASE provider = "openai" -> SdkOpenai(reply, TRUE)
      [] provider = "anthropic" -> SdkAnthropic(reply, TRUE)
      [] provider = "deepseek" -> callDeepseekChat(reply)
      [] provider = "perplexity" -> RawFetch(reply, "Perplexity API error", TRUE, "")

\* app.post('/api/detect-language'), from the await to the response
DetectFinish(r, reply) ==
    LET x == DetectExtract(r.provider, reply)
    IN  IF x.threw THEN Caught(x.error, "Language detection failed")
        ELSE DetectRes(x.text)

---------------------------------------------------------------------------
(* The inputs the model draws *)

\* the environments: every credential set, one of them unset, none set
Environments == {EnvVars, {}} \cup {EnvVars \ {v} : v \in EnvVars}

\* the seven provider ids, an identifier that is none of them, and none
RequestProviders == ProviderIds \cup {"mistral", ""}

\* the provider's own models, one no catalog holds, and none
RequestModels(provider) ==
    (IF provider \in DOMAIN AVAILABLE_MODELS
     THEN DOMAIN AVAILABLE_MODELS[provider] ELSE {}) \cup {"no-such-model", ""}

\* absent or empty, whitespace only, and a word
Messages == {"", "  ", "hello"}

\* the roles of a history: a plain dialogue, a dialogue after a system prompt,
\* and one with a system turn before every exchange
HistoryPatterns == {"dialogue", "primed", "interleaved"}

RoleAt(pattern, i) ==
    CASE pattern = "dialogue" -> IF i % 2 = 1 THEN "user" ELSE "assistant"
      [] pattern = "primed" ->
            IF i = 1 THEN "system" ELSE IF i % 2 = 0 THEN "user" ELSE "assistant"
      [] pattern = "interleaved" ->
            IF i % 3 = 1 THEN "system" ELSE IF i % 3 = 2 THEN "user" ELSE "assistant"

\* turn i carries the text "turn i", so that every turn of a history is distinct
MakeHistory(pattern, n) ==
    [i \in 1..n |-> [role |-> RoleAt(pattern, i), content |-> "turn " \o ToString(i)]]

Histories == {MakeHistory(p, n) : p \in HistoryPatterns, n \in 0..MaxHistory}

SourceLangs == {"auto", "en", "xx", ""}
TargetLangs == {"es", "en", "xx", ""}

ErrorReplies == {Reply(k, "") : k \in {"network_error", "http_error"}}
EmptyReplies == {Reply(k, "") : k \in {"no_choice", "no_text"}}

ChatReplies ==
    ErrorReplies \cup EmptyReplies \cup {Reply("text", t) : t \in {"", "Hi there!"}}
TranslateReplies ==
    ErrorReplies \cup EmptyReplies
        \cup {Reply("text", t) : t \in {"", "Hola", " \"Hola\"\n"}}
DetectReplies ==
    ErrorReplies \cup EmptyReplies
        \cup {Reply("text", t) : t \in {"", "Spanish", "spanish\n", "Klingon"}}

---------------------------------------------------------------------------
(* The state machine: one request, from its arrival to its response *)

Init ==
    /\ env \in Environments
    /\ clients = MakeClients(env)
    /\ pc = "idle"
    /\ req = NoReq
    /\ outbound = <<>>
    /\ upstream = NoReply
    /\ res = NoRes
    /\ estimate = NoEstimate
    /\ OthersUnused

\* POST /api/chat arrives: the handler runs to its await, or to its response
PostChat ==
    /\ pc = "idle"
    /\ \E provider \in RequestProviders : \E model \in RequestModels(provider) :
       \E message \in Messages : \E history \in Histories :
          LET r == ChatReq(provider, model, message, history)
              step == ChatReceive(clients, r)
          IN  /\ req' = r
              /\ pc' = step.pc
              /\ outbound' = step.outbound
              /\ res' = step.res
    /\ UNCHANGED <<env, clients, upstream, estimate, others>>

\* the provider answers the chat call: the handler resumes and responds
ChatReply ==
    /\ pc = "awaiting"
    /\ req.kind = "chat"
    /\ \E reply \in ChatReplies :
          /\ upstream' = reply
          /\ res' = ChatFinish(req, reply)
    /\ pc' = "done"
    /\ UNCHANGED <<env, clients, req, outbound, estimate, others>>

\* POST /api/translate arrives
PostTranslate ==
    /\ pc = "idle"
    /\ \E provider \in RequestProviders : \E model \in RequestModels(provider) :
       \E text \in Messages : \E sourceLang \in SourceLangs : \E targetLang \in TargetLangs :
          LET r == TranslateReq(provider, model, text, sourceLang, targetLang)
              step == TranslateReceive(clients, r)
          IN  /\ req' = r
              /\ pc' = step.pc
              /\ outbound' = step.outbound
              /\ res' = step.res
    /\ UNCHANGED <<env, clients, upstream, estimate, others>>

\* the provider answers the translation call
TranslateReply ==
    /\ pc = "awaiting"
    /\ req.kind = "translate"
    /\ \E reply \in TranslateReplies :
          /\ upstream' = reply
          /\ res' = TranslateFinish(req, reply)
    /\ pc' = "done"
    /\ UNCHANGED <<env, clients, req, outbound, estimate, others>>

\* POST /api/detect-language arrives
PostDetect ==
    /\ pc = "idle"
    /\ \E provider \in RequestProviders : \E model \in RequestModels(provider) :
       \E text \in Messages :
          LET r == DetectReq(provider, model, text)
              step == DetectReceive(clients, r)
          IN  /\ req' = r
              /\ pc' = step.pc
              /\ outbound' = step.outbound
              /\ res' = step.res
    /\ UNCHANGED <<env, clients, upstream, estimate, others>>

\* the provider answers the detection call
DetectReply ==
    /\ pc = "awaiting"
    /\ req.kind = "detect"
    /\ \E reply \in DetectReplies :
          /\ upstream' = reply
          /\ res' = DetectFinish(req, reply)
    /\ pc' = "done"
    /\ UNCHANGED <<env, clients, req, outbound, estimate, others>>

\* GET /api/models arrives: answered at once from the registry
GetModels ==
    /\ pc = "idle"
    /\ req' = [NoReq EXCEPT !.kind = "models"]
    /\ pc' = "done"
    /\ res' = [NoRes EXCEPT !.status = 200, !.models = ModelsBody(clients)]
    /\ UNCHANGED <<env, clients, outbound, upstream, estimate, others>>

\* GET /api/health arrives: answered at once from the clients object
GetHealth ==
    /\ pc = "idle"
    /\ req' = [NoReq EXCEPT !.kind = "health"]
    /\ pc' = "done"
    /\ res' = [NoRes EXCEPT !.status = 200, !.health = HealthBody(clients)]
    /\ UNCHANGED <<env, clients, outbound, upstream, estimate, others>>

Next ==
    \/ PostChat
    \/ ChatReply
    \/ PostTranslate
    \/ TranslateReply
    \/ PostDetect
    \/ DetectReply
    \/ GetModels
    \/ GetHealth

Spec == Init /\ [][Next]_vars

\* a handler suspended at its await runs on to its response
Settle == pc = "awaiting" /\ pc' = "done"

\* The same requests under the assumption that an upstream call that was made
\* eventually returns or fails: the awaited promise settles, and the event
\* loop then resumes the handler, which runs to its response.
FairSpec == Spec /\ WF_pc(Settle)

---------------------------------------------------------------------------
(* The cost estimate as a function of its two arguments: calculateCost and  *)
(* the toFixed(6) the handlers apply to it, on token counts and model ids    *)
(* of any origin                                                             *)

TokenCounts == 0..MaxTokens \cup {1000}

\* the eight ids of the rate table and four ids it does not list
CostModels == DOMAIN costPerToken \cup {"sonar", "gpt-4o-mini", "no-such-model", ""}

CostInit ==
    /\ env = EnvVars
    /\ clients = MakeClients(env)
    /\ pc = "idle"
    /\ req = NoReq
    /\ outbound = <<>>
    /\ upstream = NoReply
    /\ res = NoRes
    /\ \E tokens \in TokenCounts : \E model \in CostModels :
          estimate = [NoEstimate EXCEPT !.tokens = tokens, !.model = model]
    /\ OthersUnused

\* const cost = calculateCost(tokensUsed, model); parseFloat(cost.toFixed(6))
EstimateCost ==
    /\ estimate.calls < MaxCalls
    /\ estimate' = [estimate EXCEPT
                      !.cost = ToFixed6(calculateCost(estimate.tokens, estimate.model)),
                      !.calls = estimate.calls + 1]
    /\ UNCHANGED <<env, clients, pc, req, outbound, upstream, res, others>>

CostSpec == CostInit /\ [][EstimateCost]_vars

---------------------------------------------------------------------------
(* The server handling several requests at once. Each request has a slot;    *)
(* a handler runs from the arrival of its request to its await, and from     *)
(* the provider's reply to its response, and the handlers of different       *)
(* requests interleave at those points. The registry (env, clients) is the   *)
(* one of the process.                                                       *)

\* what a handler leaves in `clients` with a provider struck off after use
RegistryAfterStrikingOff(cl, r) ==
    IF r.provider \in DOMAIN cl THEN [cl EXCEPT ![r.provider] = "null"] ELSE cl

\* what a handler leaves in `clients`: no handler assigns to it or to a key of it
RegistryAfter(cl, r) == cl

\* GET /api/models, /api/health and /api/languages carry no body
GetReq(kind) == [NoReq EXCEPT !.kind = kind]

\* the handler of request r, from its arrival to its await or its response
Receive(cl, r) ==
    CASE r.kind = "chat" -> ChatReceive(cl, r)
      [] r.kind = "translate" -> TranslateReceive(cl, r)
      [] r.kind = "detect" -> DetectReceive(cl, r)
      [] r.kind = "models" ->
            Respond([NoRes EXCEPT !.status = 200, !.models = ModelsBody(cl)])
      [] r.kind = "health" ->
            Respond([NoRes EXCEPT !.status = 200, !.health = HealthBody(cl)])
      [] r.kind = "languages" ->
            Respond([NoRes EXCEPT !.status = 200, !.languages = SUPPORTED_LANGUAGES])

\* the handler of request r, from the provider's reply to its response
Finish(r, reply) ==
    CASE r.kind = "chat" -> ChatFinish(r, reply)
      [] r.kind = "translate" -> TranslateFinish(r, reply)
      [] r.kind = "detect" -> DetectFinish(r, reply)

IdleSlot ==
    [pc |-> "idle", req |-> NoReq, outbound |-> <<>>, upstream |-> NoReply, res |-> NoRes]

\* the requests that arrive: calls of every kind, two of them to the same
\* provider and model, one to a provider that may lack its credential
ConcRequests ==
    {ChatReq("openai", "gpt-4", "hello", <<>>),
     ChatReq("openai", "gpt-4", "hello", MakeHistory("dialogue", 2)),
     ChatReq("anthropic", "claude-3-haiku-20240307", "hello", MakeHistory("primed", 3)),
     ChatReq("deepseek", "deepseek-chat", "hello", <<>>),
     TranslateReq("openai", "gpt-4", "hello", "auto", "es"),
     TranslateReq("anthropic", "claude-3-haiku-20240307", "hello", "en", "es"),
     DetectReq("perplexity", "sonar", "hello"),
     DetectReq("microsoft", "gpt-4o-mini", "hello"),
     GetReq("models"), GetReq("health"), GetReq("languages")}

\* what the provider answers to the call of request r
ConcReplies(r) ==
    {Reply("http_error", "")} \cup
    {Reply("text", CASE r.kind = "chat" -> "Hi there!"
                     [] r.kind = "translate" -> "Hola"
                     [] r.kind = "detect" -> "Spanish")}

ConcEnvironments == {EnvVars, EnvVars \ {"ANTHROPIC_API_KEY"}}

ConcInit ==
    /\ env \in ConcEnvironments
    /\ clients = MakeClients(env)
    /\ pc = "idle"
    /\ req = NoReq
    /\ outbound = <<>>
    /\ upstream = NoReply
    /\ res = NoRes
    /\ estimate = NoEstimate
    /\ conc = [i \in (1..MaxRequests) |-> IdleSlot]
    /\ manager = Unused
    /\ archive = Unused
    /\ ui = Unused
    /\ detector = Unused
    /\ auth = Unused

\* a request arrives while others may be waiting for their providers
Arrive ==
    \E i \in (1..MaxRequests) :
        /\ conc[i].pc = "idle"
        /\ \E r \in ConcRequests :
              LET step == Receive(clients, r)
              IN  /\ conc' = [conc EXCEPT ![i] = [pc |-> step.pc, req |-> r,
                                                  outbound |-> step.outbound,
                                                  upstream |-> NoReply,
                                                  res |-> step.res]]
                  /\ clients' = RegistryAfter(clients, r)
        /\ UNCHANGED <<env, pc, req, outbound, upstream, res, estimate,
                       manager, archive, ui, detector, auth>>

\* the provider answers one of the waiting requests, in any order
Resume ==
    \E i \in (1..MaxRequests) :
        /\ conc[i].pc = "awaiting"
        /\ \E reply \in ConcReplies(conc[i].req) :
              conc' = [conc EXCEPT ![i].pc = "done",
                                   ![i].upstream = reply,
                                   ![i].res = Finish(conc[i].req, reply)]
        /\ clients' = RegistryAfter(clients, conc[i].req)
        /\ UNCHANGED <<env, pc, req, outbound, upstream, res, estimate,
                       manager, archive, ui, detector, auth>>

ConcSpec == ConcInit /\ [][Arrive \/ Resume]_vars

---------------------------------------------------------------------------
(* The browser's LLMProvidersManager (public/js/llmProviders.js) talking to  *)
(* the server above. `manager` holds the object's fields and one record for  *)
(* each sendMessage call; a call in flight is between its fetch and the      *)
(* arrival of the response, where other methods of the manager run.          *)

\* String.prototype.includes
includes(s, sub) ==
    \E i \in 1..(Len(s) - Len(sub) + 1) : SubSeq(s, i, i + Len(sub) - 1) = sub

\* the keys of each catalog in the order AVAILABLE_MODELS writes them, which
\* is the order Object.keys gives after the JSON round trip
CatalogOrder ==
    [openai     |-> <<"gpt-4", "gpt-4-turbo", "gpt-3.5-turbo">>,
     anthropic  |-> <<"claude-3-5-sonnet-20241022", "claude-3-haiku-20240307",
                      "claude-3-sonnet-20240229">>,
     deepseek   |-> <<"deepseek-chat", "deepseek-coder">>,
     perplexity |-> <<"sonar", "sonar-pro">>,
     microsoft  |-> <<"gpt-4o-mini">>,
     adobe      |-> <<"firefly-image">>,
     canva      |-> <<"design">>]

\* Object.keys(models) of a provider's catalog
ObjectKeys(provider, models) ==
    SelectSeq(CatalogOrder[provider], LAMBDA m : m \in DOMAIN models)

NoModels == [m \in {} |-> ""]

\* const priorityOrder = [...]
priorityOrder ==
    <<"openai", "anthropic", "perplexity", "microsoft", "deepseek", "adobe", "canva">>

AssistantTurn(content) == [role |-> "assistant", content |-> content]

\* one sendMessage call: the message, the history when the call started and
\* the request it sent, while it waits; the history it found and the history
\* it left, once it has thrown
NoSend ==
    [pc |-> "idle", message |-> "", started |-> <<>>, endpoint |-> "",
     request |-> NoReq, ended |-> <<>>]

\* the operation that ran last, with its arguments and whether it threw
Last(op, provider, modelId, threw) ==
    [op |-> op, provider |-> provider, modelId |-> modelId, threw |-> threw]

\* the constructor
NewManager ==
    [providers |-> [p \in ProviderIds |-> [models |-> NoModels, available |-> FALSE]],
     currentProvider |-> "null",
     currentModel |-> "null",
     conversationHistory |-> <<>>,
     calls |-> [i \in (1..MaxSends) |-> NoSend],
     last |-> Last("constructor", "", "", FALSE)]

\* loadAvailableModels once /api/models has answered 200 with `models`
Loaded(m, models) ==
    [m EXCEPT !.providers =
        [p \in ProviderIds |->
            IF p \in DOMAIN models /\ DOMAIN models[p] # {}
            THEN [models |-> models[p], available |-> TRUE]
            ELSE [models |-> NoModels, available |-> FALSE]]]

\* the test of setModel: if (!providers[provider] || !providers[provider].available
\* || !providers[provider].models[modelId]) throw
CanSetModel(m, provider, modelId) ==
    /\ provider \in DOMAIN m.providers
    /\ m.providers[provider].available
    /\ modelId \in DOMAIN m.providers[provider].models

\* setModel without the test of the catalog
setModelAnyModel(m, provider, modelId) ==
    IF provider \in DOMAIN m.providers /\ m.providers[provider].available
    THEN [m EXCEPT !.currentProvider = provider, !.currentModel = modelId,
                   !.conversationHistory = <<>>,
                   !.last = Last("setModel", provider, modelId, FALSE)]
    ELSE [m EXCEPT !.last = Last("setModel", provider, modelId, TRUE)]

\* setModel(provider, modelId)
setModel(m, provider, modelId) ==
    IF CanSetModel(m, provider, modelId)
    THEN [m EXCEPT !.currentProvider = provider, !.currentModel = modelId,
                   !.conversationHistory = <<>>,
                   !.last = Last("setModel", provider, modelId, FALSE)]
    ELSE [m EXCEPT !.last = Last("setModel", provider, modelId, TRUE)]

\* the providers autoSelectModel may take, in priority order
Selectable(m) ==
    SelectSeq(priorityOrder,
              LAMBDA p : m.providers[p].available /\ DOMAIN m.providers[p].models # {})

\* autoSelectModel(): setModel on the first model of the first such provider
autoSelectModel(m) ==
    IF Selectable(m) = <<>> THEN m
    ELSE LET provider == Head(Selectable(m))
         IN  setModel(m, provider, Head(ObjectKeys(provider, m.providers[provider].models)))

\* which endpoint sendMessage posts to
Endpoint(provider, model) ==
    IF includes(model, "image") \/ includes(model, "firefly") THEN "/api/generate-image"
    ELSE IF includes(model, "design") /\ provider = "canva" THEN "/api/create-design"
    ELSE "/api/chat"

\* the body of the POST to /api/chat: history is this.conversationHistory as
\* JSON.stringify finds it, the user turn of this call already pushed
RequestData(m, message) ==
    ChatReq(m.currentProvider, m.currentModel, message,
            Append(m.conversationHistory, UserTurn(Trim(message))))

\* what fetch gives back for a call: a rejection, or the server's response
NetworkError == [NoRes EXCEPT !.status = 0]

\* app.use((req, res) => res.status(404).json({ error: 'Route not found' }))
RouteNotFound == ErrorRes(404, "Route not found")

Responses(cl, call) ==
    {NetworkError} \cup
    IF call.endpoint # "/api/chat" THEN {RouteNotFound}
    ELSE LET step == Receive(cl, call.request)
         IN  IF step.pc = "done" THEN {step.res}
             ELSE {Finish(call.request, reply) : reply \in ConcReplies(call.request)}

\* response.ok
Ok(response) == response.status \in 200..299

\* conversationHistory.pop()
Pop(history) == SubSeq(history, 1, Len(history) - 1)

\* the catch block of sendMessage: this.conversationHistory.pop()
AfterFailure(history, call) == Pop(history)

\* the environments the server may run with
ManagerEnvironments == {EnvVars, EnvVars \ {"OPENAI_API_KEY"}}

\* what the user picks in the model menu, or a caller passes
SelectProviders == {"openai", "adobe", "mistral"}
SelectModels == {"gpt-4", "firefly-image", "no-such-model"}

\* a word, blanks
SentMessages == {"hello", "  "}

ManagerInit ==
    /\ env \in ManagerEnvironments
    /\ clients = MakeClients(env)
    /\ pc = "idle"
    /\ req = NoReq
    /\ outbound = <<>>
    /\ upstream = NoReply
    /\ res = NoRes
    /\ estimate = NoEstimate
    /\ conc = Unused
    /\ manager = NewManager
    /\ archive = Unused
    /\ ui = Unused
    /\ detector = Unused
    /\ auth = Unused

\* the server process is started again, with the environment of that moment
Restart ==
    /\ \E e \in ManagerEnvironments :
          /\ env' = e
          /\ clients' = MakeClients(e)
    /\ UNCHANGED <<pc, req, outbound, upstream, res, estimate, others>>

\* loadAvailableModels(): the marks follow the body of /api/models; a failed
\* fetch or a non-ok answer throws and changes nothing
LoadAvailableModels ==
    /\ \E ok \in BOOLEAN :
          manager' = [(IF ok THEN Loaded(manager, ModelsBody(clients)) ELSE manager)
                         EXCEPT !.last = Last("loadAvailableModels", "", "", ~ok)]
    /\ UNCHANGED <<env, clients, pc, req, outbound, upstream, res, estimate,
                   conc, archive, ui, detector, auth>>

\* initialize(): await loadAvailableModels(); if (!currentProvider ||
\* !currentModel) autoSelectModel()
Initialize ==
    /\ \E ok \in BOOLEAN :
          manager' =
             IF ~ok THEN [manager EXCEPT !.last = Last("initialize", "", "", TRUE)]
             ELSE LET m == Loaded(manager, ModelsBody(clients))
                      selected == IF m.currentProvider = "null" \/ m.currentModel = "null"
                                  THEN autoSelectModel(m) ELSE m
                  IN  [selected EXCEPT !.last = Last("initialize", "", "", FALSE)]
    /\ UNCHANGED <<env, clients, pc, req, outbound, upstream, res, estimate,
                   conc, archive, ui, detector, auth>>

AutoSelectModel ==
    /\ manager' = [autoSelectModel(manager) EXCEPT !.last = Last("autoSelectModel", "", "", FALSE)]
    /\ UNCHANGED <<env, clients, pc, req, outbound, upstream, res, estimate,
                   conc, archive, ui, detector, auth>>

SetModel ==
    /\ \E provider \in SelectProviders, modelId \in SelectModels :
          manager' = setModel(manager, provider, modelId)
    /\ UNCHANGED <<env, clients, pc, req, outbound, upstream, res, estimate,
                   conc, archive, ui, detector, auth>>

\* clearHistory()
ClearHistory ==
    /\ manager' = [manager EXCEPT !.conversationHistory = <<>>,
                                  !.last = Last("clearHistory", "", "", FALSE)]
    /\ UNCHANGED <<env, clients, pc, req, outbound, upstream, res, estimate,
                   conc, archive, ui, detector, auth>>

\* sendMessage(message) up to its await fetch(...)
SendMessage ==
    /\ \E i \in (1..MaxSends) :
          /\ manager.calls[i].pc = "idle"
          /\ \A j \in 1..(i - 1) : manager.calls[j].pc # "idle"
          /\ \E message \in SentMessages :
                manager' =
                   IF \/ manager.currentProvider = "null"
                      \/ manager.currentModel = "null"
                      \/ Trim(message) = ""
                   THEN [manager EXCEPT !.last = Last("sendMessage", "", "", TRUE)]
                   ELSE [manager EXCEPT
                           !.conversationHistory = Append(@, UserTurn(Trim(message))),
                           !.calls[i] =
                               [pc |-> "awaiting", message |-> message,
                                started |-> manager.conversationHistory,
                                endpoint |-> Endpoint(manager.currentProvider,
                                                      manager.currentModel),
                                request |-> RequestData(manager, message),
                                ended |-> <<>>],
                           !.last = Last("sendMessage", "", "", FALSE)]
    /\ UNCHANGED <<env, clients, pc, req, outbound, upstream, res, estimate,
                   conc, archive, ui, detector, auth>>

\* sendMessage from the arrival of the response: the assistant turn is pushed,
\* or the catch block pops the history
SendSettle ==
    /\ \E i \in (1..MaxSends) :
          /\ manager.calls[i].pc = "awaiting"
          /\ \E response \in Responses(clients, manager.calls[i]) :
                manager' =
                   IF Ok(response)
                   THEN [manager EXCEPT
                           !.conversationHistory =
                               Append(@, AssistantTurn(IF response.text = ""
                                                       THEN "No response available"
                                                       ELSE response.text)),
                           !.calls[i] = [NoSend EXCEPT !.pc = "resolved"],
                           !.last = Last("sendMessage", "", "", FALSE)]
                   ELSE LET left == AfterFailure(manager.conversationHistory,
                                                 manager.calls[i])
                        IN  [manager EXCEPT
                               !.conversationHistory = left,
                               !.calls[i] =
                                   [NoSend EXCEPT !.pc = "failed",
                                                  !.started = manager.calls[i].started,
                                                  !.ended = left],
                               !.last = Last("sendMessage", "", "", TRUE)]
    /\ UNCHANGED <<env, clients, pc, req, outbound, upstream, res, estimate,
                   conc, archive, ui, detector, auth>>

ManagerSpec == ManagerInit
    /\ [][Restart \/ LoadAvailableModels \/ Initialize \/ AutoSelectModel \/ SetModel \/ ClearHistory \/ SendMessage \/ SendSettle]_vars

---------------------------------------------------------------------------
(* TranslatorApp.translationHistory (unnamed/part_001) with its copy in      *)
(* localStorage and the list handed to the page. An entry is the number of   *)
(* the translation it records, counted from the first one ever kept.         *)

\* this.translationHistory.slice(0, 50)
HistoryLimit == 50

\* this.translationHistory.slice(0, 10)
ShownLimit == 10

\* slice(0, n)
Take(list, n) == SubSeq(list, 1, IF Len(list) < n THEN Len(list) ELSE n)

\* entries hi, hi-1, .., lo: newest first
Entries(hi, lo) == [i \in 1..(hi - lo + 1) |-> hi - i + 1]

\* localStorage['translationHistory']: nothing, or the JSON of a list; the
\* entries are objects of strings, which JSON.parse(JSON.stringify(..)) gives back
NothingStored == [present |-> FALSE, list |-> <<>>]
Stored(list) == [present |-> TRUE, list |-> list]

\* localStorage.setItem inside try/catch: the browser refuses a value beyond
\* its quota (QuotaExceededError), the catch logs it, and the old value stays
setItem(stored, list, quota) ==
    IF Len(list) <= quota THEN Stored(list) ELSE stored

\* addToHistory keeping the oldest entries: push and slice(0, 50)
addToHistoryAtEnd(list, translation) == Take(list \o <<translation>>, HistoryLimit)

\* addToHistory: unshift(translation); if (length > 50) slice(0, 50)
addToHistory(list, translation) == Take(<<translation>> \o list, HistoryLimit)

\* how many entries a browser's storage takes: none (storage disabled or
\* full), a few, or all the application ever writes
StorageQuotas == {0, 3, HistoryLimit}

\* what an earlier visit left in localStorage
EarlierVisits == {NothingStored, Stored(<<>>), Stored(Entries(2, 1)),
                  Stored(Entries(HistoryLimit, 1))}

ArchiveInit ==
    /\ env = EnvVars
    /\ clients = MakeClients(env)
    /\ pc = "idle"
    /\ req = NoReq
    /\ outbound = <<>>
    /\ upstream = NoReply
    /\ res = NoRes
    /\ estimate = NoEstimate
    /\ conc = Unused
    /\ manager = Unused
    /\ archive \in {[pc |-> "constructed", translationHistory |-> <<>>, stored |-> s,
                     shown |-> <<>>, kept |-> Len(s.list), quota |-> q,
                     lastWrite |-> "none"] :
                       s \in EarlierVisits, q \in StorageQuotas}
    /\ ui = Unused
    /\ detector = Unused
    /\ auth = Unused

\* loadTranslationHistory(), called once by init()
LoadTranslationHistory ==
    /\ archive.pc = "constructed"
    /\ archive' = IF archive.stored.present
                  THEN [archive EXCEPT !.pc = "ready",
                                       !.translationHistory = archive.stored.list,
                                       !.shown = Take(archive.stored.list, ShownLimit)]
                  ELSE [archive EXCEPT !.pc = "ready"]
    /\ UNCHANGED <<env, clients, pc, req, outbound, upstream, res, estimate,
                   conc, manager, ui, detector, auth>>

\* addToHistory(translation) with saveTranslationHistory() and
\* updateTranslationHistory(slice(0, 10))
Keep(a) ==
    LET translation == a.kept + 1
        list == addToHistory(a.translationHistory, translation)
    IN  [a EXCEPT !.translationHistory = list,
                  !.stored = setItem(a.stored, list, a.quota),
                  !.lastWrite = IF Len(list) <= a.quota THEN "stored" ELSE "refused",
                  !.shown = Take(list, ShownLimit),
                  !.kept = translation]

AddToHistory ==
    /\ archive.pc = "ready"
    /\ archive.kept < MaxKept
    /\ archive' = Keep(archive)
    /\ UNCHANGED <<env, clients, pc, req, outbound, upstream, res, estimate,
                   conc, manager, ui, detector, auth>>

\* handleClearHistory()
HandleClearHistory ==
    /\ archive.pc = "ready"
    /\ archive' = [archive EXCEPT
                      !.translationHistory = <<>>,
                      !.stored = setItem(archive.stored, <<>>, archive.quota),
                      !.lastWrite = "stored",
                      !.shown = <<>>]
    /\ UNCHANGED <<env, clients, pc, req, outbound, upstream, res, estimate,
                   conc, manager, ui, detector, auth>>

ArchiveSpec == ArchiveInit
    /\ [][LoadTranslationHistory \/ AddToHistory \/ HandleClearHistory]_vars

---------------------------------------------------------------------------
(* The translate page (unnamed/part_001): TranslateUIManager.isTranslating,  *)
(* the translate button, and the /api/translate request of                   *)
(* TranslatorApp.handleTranslateRequest between its fetch and its response.  *)

\* getCurrentModel(): null, or the selected provider and model
NoModel == [provider |-> "null", modelId |-> "null"]
PageModels == {NoModel, [provider |-> "openai", modelId |-> "gpt-4"]}

NewPage ==
    [isInitialized |-> FALSE, isTranslating |-> FALSE, disabled |-> FALSE,
     request |-> NoReq, outstanding |-> 0, started |-> 0, ignored |-> FALSE,
     targetText |-> "", error |-> ""]

\* triggerTranslation dispatching whether or not a translation is under way
triggerTranslationUnguarded(isTranslating, text, sourceLang, targetLang) ==
    IF Trim(text) = "" THEN "Please enter text to translate"
    ELSE IF sourceLang = targetLang /\ sourceLang # "auto"
    THEN "Source and target languages cannot be the same"
    ELSE "dispatch"

\* triggerTranslation(): what it does with the fields of the page
triggerTranslation(isTranslating, text, sourceLang, targetLang) ==
    IF isTranslating THEN "return"
    ELSE IF Trim(text) = "" THEN "Please enter text to translate"
    ELSE IF sourceLang = targetLang /\ sourceLang # "auto"
    THEN "Source and target languages cannot be the same"
    ELSE "dispatch"

\* handleTranslateRequest up to its try block: the error it shows, or "try"
handleTranslateRequest(u, model, text, targetLang) ==
    IF ~u.isInitialized THEN "Translator is still initializing. Please wait."
    ELSE IF Trim(text) = "" THEN "Please enter text to translate"
    ELSE IF targetLang = "" THEN "Please select a target language"
    ELSE IF model = NoModel THEN "Please select an AI model before translating"
    ELSE "try"

\* what the fetch of performTranslation gives back
TranslateResponses(cl, request) ==
    {NetworkError} \cup
    LET step == Receive(cl, request)
    IN  IF step.pc = "done" THEN {step.res}
        ELSE {Finish(request, reply) : reply \in ConcReplies(request)}

\* how the page is used: the text typed, the languages chosen, the way the
\* translation is asked for
PageTexts == {"", "hello", " hola "}
PageSourceLangs == {"auto", "en"}
PageTargetLangs == {"en", "es"}
Triggers == {"button", "ctrl-enter", "ctrl-t"}

UiInit ==
    /\ env \in ManagerEnvironments
    /\ clients = MakeClients(env)
    /\ pc = "idle"
    /\ req = NoReq
    /\ outbound = <<>>
    /\ upstream = NoReply
    /\ res = NoRes
    /\ estimate = NoEstimate
    /\ conc = Unused
    /\ manager \in PageModels
    /\ archive = [pc |-> "ready", translationHistory |-> <<>>, stored |-> NothingStored,
                  shown |-> <<>>, kept |-> 0, quota |-> HistoryLimit,
                  lastWrite |-> "none"]
    /\ ui = NewPage
    /\ detector = Unused
    /\ auth = Unused

\* init() reaches this.isInitialized = true
PageInitialized ==
    /\ ~ui.isInitialized
    /\ ui' = [ui EXCEPT !.isInitialized = TRUE]
    /\ UNCHANGED <<env, clients, pc, req, outbound, upstream, res, estimate,
                   conc, manager, archive, detector, auth>>

\* the button, Ctrl+Enter in the text or Ctrl+T: triggerTranslation(), the
\* translateRequest event and handleTranslateRequest up to its await. A
\* disabled button gives no click.
TriggerTranslation ==
    /\ ui.started < MaxTranslations
    /\ \E trigger \in Triggers, text \in PageTexts,
          sourceLang \in PageSourceLangs, targetLang \in PageTargetLangs :
          /\ trigger = "button" => ~ui.disabled
          /\ LET does == triggerTranslation(ui.isTranslating, text, sourceLang, targetLang)
                 then == handleTranslateRequest(ui, manager, text, targetLang)
             IN  ui' =
                   IF does = "return" THEN [ui EXCEPT !.ignored = TRUE]
                   ELSE IF does # "dispatch" THEN [ui EXCEPT !.error = does]
                   ELSE IF then # "try" THEN [ui EXCEPT !.error = then]
                   ELSE [ui EXCEPT
                           !.isTranslating = TRUE, !.disabled = TRUE,
                           !.targetText = "",
                           !.request = TranslateReq(manager.provider, manager.modelId,
                                                    Trim(text), sourceLang, targetLang),
                           !.outstanding = @ + 1,
                           !.started = @ + 1]
    /\ UNCHANGED <<env, clients, pc, req, outbound, upstream, res, estimate,
                   conc, manager, archive, detector, auth>>

\* handleTranslateRequest from the arrival of the response: the result is
\* shown and kept in the history, or the error is shown; finally
\* setTranslating(false)
TranslateSettle ==
    /\ ui.outstanding > 0
    /\ \E response \in TranslateResponses(clients, ui.request) :
          IF Ok(response)
          THEN /\ ui' = [ui EXCEPT !.isTranslating = FALSE, !.disabled = FALSE,
                                   !.outstanding = @ - 1, !.request = NoReq,
                                   !.ignored = FALSE,
                                   !.targetText = response.text]
               /\ archive' = Keep(archive)
          ELSE /\ ui' = [ui EXCEPT !.isTranslating = FALSE, !.disabled = FALSE,
                                   !.outstanding = @ - 1, !.request = NoReq,
                                   !.ignored = FALSE,
                                   !.error = IF response = NetworkError
                                             THEN "Failed to fetch" ELSE response.error]
               /\ UNCHANGED archive
    /\ UNCHANGED <<env, clients, pc, req, outbound, upstream, res, estimate,
                   conc, manager, detector, auth>>

UiSpec == UiInit /\ [][PageInitialized \/ TriggerTranslation \/ TranslateSettle]_vars

\* the browser settles every fetch: with a response, or with a rejection
FairUiSpec == UiSpec /\ WF_vars(TranslateSettle)

---------------------------------------------------------------------------
(* Language detection of the translate page (unnamed/part_001): the          *)
(* debounced call of detectLanguage, the /api/detect-language requests in    *)
(* flight, and the detected-language indicator. Time passes in steps of      *)
(* half the debounce wait.                                                   *)

\* this.debounce(.., 1000)
DetectWait == 1000

NoTimer == [armed |-> FALSE, text |-> "", remaining |-> 0]

\* the indicator: hidden, or showing the language of an answer; `request` is
\* the request whose answer set it last (0: none, or cleared by the page)
NoIndicator == [code |-> "", request |-> 0]

NewDetector ==
    [text |-> "", sourceLang |-> "auto", timer |-> NoTimer, quiet |-> DetectWait,
     requests |-> <<>>, answers |-> <<>>, indicator |-> NoIndicator]

\* the test of handleSourceTextChange for starting a detection
Qualifies(sourceLang, text) ==
    sourceLang = "auto" /\ Trim(text) # "" /\ Len(text) > 10

\* debounce: clearTimeout(timeout); timeout = setTimeout(later, wait)
debounce(timer, text) == [armed |-> TRUE, text |-> text, remaining |-> DetectWait]

\* updateDetectedLanguage(result.languageCode || 'unknown') for request id
updateDetectedLanguage(languageCode, id) ==
    IF languageCode \notin {"", "unknown"}
    THEN [code |-> languageCode, request |-> id]
    ELSE [code |-> "", request |-> id]

\* what the provider says of a text
LanguageSpoken(text) == IF includes(text, "hola") THEN "Spanish" ELSE "English"

\* what the fetch of detectLanguage gives back for a text
DetectResponses(cl, model, text) ==
    LET request == DetectReq(model.provider, model.modelId, text)
        step == Receive(cl, request)
    IN  {NetworkError} \cup
        IF step.pc = "done" THEN {step.res}
        ELSE {Finish(request, reply) :
                 reply \in {Reply("http_error", ""), Reply("text", LanguageSpoken(text))}}

\* what is typed or pasted into the source text
TypedTexts == {"", "hello", "  hello    ", "hello world!", "hola, amigos!"}

DetectorInit ==
    /\ env = EnvVars
    /\ clients = MakeClients(env)
    /\ pc = "idle"
    /\ req = NoReq
    /\ outbound = <<>>
    /\ upstream = NoReply
    /\ res = NoRes
    /\ estimate = NoEstimate
    /\ conc = Unused
    /\ manager \in PageModels
    /\ archive = Unused
    /\ ui = Unused
    /\ detector = NewDetector
    /\ auth = Unused

\* handleSourceTextChange(text)
SourceTextChange ==
    /\ Len(detector.requests) < MaxDetections
    /\ \E text \in TypedTexts :
          detector' =
             IF Qualifies(detector.sourceLang, text)
             THEN [detector EXCEPT !.text = text, !.quiet = 0,
                                   !.timer = debounce(detector.timer, Trim(text))]
             ELSE IF detector.sourceLang = "auto" /\ Trim(text) = ""
             THEN [detector EXCEPT !.text = text, !.indicator = NoIndicator]
             ELSE [detector EXCEPT !.text = text]
    /\ UNCHANGED <<env, clients, pc, req, outbound, upstream, res, estimate,
                   conc, manager, archive, ui, auth>>

\* the change listener of the source-language select
SourceLangChange ==
    /\ \E sourceLang \in PageSourceLangs :
          detector' = IF sourceLang # "auto"
                      THEN [detector EXCEPT !.sourceLang = sourceLang,
                                            !.indicator = NoIndicator]
                      ELSE [detector EXCEPT !.sourceLang = sourceLang]
    /\ UNCHANGED <<env, clients, pc, req, outbound, upstream, res, estimate,
                   conc, manager, archive, ui, auth>>

\* half the wait passes with nothing typed
Tick ==
    /\ detector.timer.armed
    /\ detector.timer.remaining > 0
    /\ detector' = [detector EXCEPT
                       !.timer.remaining = @ - DetectWait \div 2,
                       !.quiet = IF @ < DetectWait THEN @ + DetectWait \div 2 ELSE @]
    /\ UNCHANGED <<env, clients, pc, req, outbound, upstream, res, estimate,
                   conc, manager, archive, ui, auth>>

\* the timer fires: detectLanguage(text) up to its await fetch(...)
TimerFires ==
    /\ detector.timer.armed
    /\ detector.timer.remaining <= 0
    /\ detector' = IF manager = NoModel
                   THEN [detector EXCEPT !.timer = NoTimer]
                   ELSE [detector EXCEPT
                           !.timer = NoTimer,
                           !.requests = Append(@, detector.timer.text),
                           !.answers = Append(@, "pending")]
    /\ UNCHANGED <<env, clients, pc, req, outbound, upstream, res, estimate,
                   conc, manager, archive, ui, auth>>

\* detectLanguage from the arrival of a response: requests in flight are
\* answered in any order
DetectSettle ==
    /\ \E id \in 1..Len(detector.requests) :
          /\ detector.answers[id] = "pending"
          /\ \E response \in DetectResponses(clients, manager, detector.requests[id]) :
                detector' =
                   IF Ok(response)
                   THEN [detector EXCEPT
                           !.answers[id] = response.languageCode,
                           !.indicator = updateDetectedLanguage(response.languageCode, id)]
                   ELSE [detector EXCEPT !.answers[id] = "failed"]
    /\ UNCHANGED <<env, clients, pc, req, outbound, upstream, res, estimate,
                   conc, manager, archive, ui, auth>>

DetectorSpec == DetectorInit
    /\ [][SourceTextChange \/ SourceLangChange \/ Tick \/ TimerFires \/ DetectSettle]_vars

---------------------------------------------------------------------------
(* AuthService (authMiddleware-fixed.js) in memory mode: this.memory.users,  *)
(* this.memory.nextId, this.resetTokens, and the registerUser and            *)
(* resetPassword calls that are waiting for bcrypt.hash. Time is counted in  *)
(* minutes.                                                                  *)

\* expiresAt = Date.now() + 1000 * 60 * 15
TokenLifetime == 15

\* bcrypt.hash(password, 10)
Hash(password) == "hash(" \o password \o ")"

User(id, email, passwordHash) ==
    [user_id |-> id, email |-> email, password_hash |-> passwordHash]

\* null, where a user is expected
NoUser == User(0, "", "")

\* this.memory.users.find(u => u.email === email) || null
getUserByEmail(users, email) ==
    LET at == {i \in 1..Len(users) : users[i].email = email}
    IN  IF at = {} THEN NoUser ELSE users[CHOOSE i \in at : \A j \in at : i <= j]

\* this.memory.users.find(u => u.user_id === userId)
IndexOfUser(users, userId) ==
    LET at == {i \in 1..Len(users) : users[i].user_id = userId}
    IN  IF at = {} THEN 0 ELSE CHOOSE i \in at : \A j \in at : i <= j

NoAuthCall ==
    [op |-> "none", pc |-> "idle", email |-> "", password |-> "", token |-> "",
     userId |-> 0, error |-> ""]

\* the tokens Math.random gives, in the order they are drawn
ResetTokenIds == <<"t1", "t2">>

\* the memory set up when the database is not reachable, no token issued
NewAuthService ==
    [users |-> <<User(1, "admin@example.com", Hash("admin123"))>>,
     nextId |-> 2,
     resetTokens |-> [t \in {} |-> [userId |-> 0, expiresAt |-> 0]],
     issued |-> 0,
     uses |-> [t \in {} |-> 0],
     now |-> 0,
     calls |-> [i \in (1..MaxAuthCalls) |-> NoAuthCall]]

Emails == {"admin@example.com", "new@example.com"}
Passwords == {"pw1", "pw2"}
PresentedTokens == {"t1", "t2", "bogus"}

\* Map.prototype.delete
Without(map, key) == [k \in DOMAIN map \ {key} |-> map[k]]

\* Map.prototype.set
With(map, key, value) == [k \in DOMAIN map \cup {key} |-> IF k = key THEN value ELSE map[k]]

AuthInit ==
    /\ env = EnvVars
    /\ clients = MakeClients(env)
    /\ pc = "idle"
    /\ req = NoReq
    /\ outbound = <<>>
    /\ upstream = NoReply
    /\ res = NoRes
    /\ estimate = NoEstimate
    /\ conc = Unused
    /\ manager = Unused
    /\ archive = Unused
    /\ ui = Unused
    /\ detector = Unused
    /\ auth = NewAuthService

\* the next call: calls are numbered in the order they start
NextAuthCall(i) ==
    /\ auth.calls[i].pc = "idle"
    /\ \A j \in 1..(i - 1) : auth.calls[j].pc # "idle"

\* registerUser(email, password) up to await bcrypt.hash(..)
RegisterUser ==
    /\ \E i \in (1..MaxAuthCalls) :
          /\ NextAuthCall(i)
          /\ \E email \in Emails, password \in Passwords :
                auth' =
                   IF getUserByEmail(auth.users, email) # NoUser
                   THEN [auth EXCEPT !.calls[i] =
                           [NoAuthCall EXCEPT !.op = "register", !.pc = "failed",
                                              !.email = email, !.password = password,
                                              !.error = "Email already registered"]]
                   ELSE [auth EXCEPT !.calls[i] =
                           [NoAuthCall EXCEPT !.op = "register", !.pc = "hashing",
                                              !.email = email, !.password = password]]
    /\ UNCHANGED <<env, clients, pc, req, outbound, upstream, res, estimate,
                   conc, manager, archive, ui, detector>>

\* registerUser from the hash on: user_id: nextId++, users.push(user)
RegisterStore ==
    /\ \E i \in (1..MaxAuthCalls) :
          /\ auth.calls[i].op = "register"
          /\ auth.calls[i].pc = "hashing"
          /\ auth' = [auth EXCEPT
                        !.users = Append(@, User(auth.nextId, auth.calls[i].email,
                                                 Hash(auth.calls[i].password))),
                        !.nextId = @ + 1,
                        !.calls[i].pc = "done",
                        !.calls[i].userId = auth.nextId]
    /\ UNCHANGED <<env, clients, pc, req, outbound, upstream, res, estimate,
                   conc, manager, archive, ui, detector>>

\* generatePasswordResetToken(email)
GeneratePasswordResetToken ==
    /\ auth.issued < Len(ResetTokenIds)
    /\ \E email \in Emails :
          LET user == getUserByEmail(auth.users, email)
              token == ResetTokenIds[auth.issued + 1]
          IN  /\ user # NoUser
              /\ auth' = [auth EXCEPT
                            !.resetTokens = With(@, token,
                                [userId |-> user.user_id,
                                 expiresAt |-> auth.now + TokenLifetime]),
                            !.uses = With(@, token, 0),
                            !.issued = @ + 1]
    /\ UNCHANGED <<env, clients, pc, req, outbound, upstream, res, estimate,
                   conc, manager, archive, ui, detector>>

\* resetPassword(token, newPassword) up to await bcrypt.hash(..)
ResetPassword ==
    /\ \E i \in (1..MaxAuthCalls) :
          /\ NextAuthCall(i)
          /\ \E token \in PresentedTokens, newPassword \in Passwords :
                LET call == [NoAuthCall EXCEPT !.op = "reset", !.token = token,
                                               !.password = newPassword]
                IN  auth' =
                       IF token \notin DOMAIN auth.resetTokens
                       THEN [auth EXCEPT !.calls[i] =
                               [call EXCEPT !.pc = "failed",
                                            !.error = "Invalid or expired token"]]
                       ELSE IF auth.now > auth.resetTokens[token].expiresAt
                       THEN [auth EXCEPT
                               !.resetTokens = Without(@, token),
                               !.calls[i] = [call EXCEPT !.pc = "failed",
                                                         !.error = "Reset token expired"]]
                       ELSE [auth EXCEPT !.calls[i] =
                               [call EXCEPT !.pc = "hashing",
                                            !.userId = auth.resetTokens[token].userId]]
    /\ UNCHANGED <<env, clients, pc, req, outbound, upstream, res, estimate,
                   conc, manager, archive, ui, detector>>

\* resetPassword from the hash on: user.password_hash = passwordHash;
\* this.resetTokens.delete(token)
ResetStore ==
    /\ \E i \in (1..MaxAuthCalls) :
          /\ auth.calls[i].op = "reset"
          /\ auth.calls[i].pc = "hashing"
          /\ LET k == IndexOfUser(auth.users, auth.calls[i].userId)
                 token == auth.calls[i].token
             IN  auth' =
                    IF k = 0
                    THEN [auth EXCEPT !.calls[i].pc = "failed",
                                      !.calls[i].error = "User not found"]
                    ELSE [auth EXCEPT
                            !.users[k].password_hash = Hash(auth.calls[i].password),
                            !.resetTokens = Without(@, token),
                            !.uses[token] = @ + 1,
                            !.calls[i].pc = "done"]
    /\ UNCHANGED <<env, clients, pc, req, outbound, upstream, res, estimate,
                   conc, manager, archive, ui, detector>>

\* five minutes pass
MinutesPass ==
    /\ auth.now <= TokenLifetime
    /\ auth' = [auth EXCEPT !.now = @ + 5]
    /\ UNCHANGED <<env, clients, pc, req, outbound, upstream, res, estimate,
                   conc, manager, archive, ui, detector>>

AuthSpec == AuthInit
    /\ [][RegisterUser \/ RegisterStore \/ GeneratePasswordResetToken \/ ResetPassword \/ ResetStore \/ MinutesPass]_vars

---------------------------------------------------------------------------
(* Properties *)

\* a chat request whose provider call has been issued
ChatCalled == req.kind = "chat" /\ outbound # <<>>

\* the message sequence of the request's provider call
Forwarded == outbound[1].messages

\* the positions of the history that lie among its 10 most recent turns
RecentTurns == (Len(req.history) - Min(Len(req.history), 10) + 1)..Len(req.history)

\* the recent positions the provider's strategy keeps
KeptTurns ==
    IF req.provider = "anthropic"
    THEN {i \in RecentTurns : req.history[i].role # "system"}
    ELSE RecentTurns

\* the j-th smallest position of a set of positions
Nth(positions, j) ==
    CHOOSE i \in positions : Cardinality({x \in positions : x < i}) = j - 1

\* C1, as stated: whatever the provider, a chat call made for a history of 15
\* turns carries exactly 11 messages, the last 10 turns of the history and then
\* the new user turn.
C1_ElevenWhateverProvider ==
    (ChatCalled /\ Len(req.history) = 15) =>
        /\ Len(Forwarded) = 11
        /\ \A i \in 1..10 : Forwarded[i] = req.history[5 + i]
        /\ Forwarded[11] = UserTurn(req.text)

\* C1, amended: for a history of 15 turns, every chat strategy but anthropic's
\* forwards exactly 11 messages, the last 10 turns and then the new user turn;
\* anthropic's forwards 11 less the number of system turns among those last 10.
C1_ElevenLessSystemTurns ==
    (ChatCalled /\ Len(req.history) = 15) =>
        LET dropped == IF req.provider = "anthropic"
                       THEN {i \in 6..15 : req.history[i].role = "system"}
                       ELSE {}
        IN  /\ Len(Forwarded) = 11 - Cardinality(dropped)
            /\ Forwarded[Len(Forwarded)] = UserTurn(req.text)
            /\ req.provider # "anthropic" =>
                  \A i \in 1..10 : Forwarded[i] = req.history[5 + i]
            /\ \A i \in 1..(Len(Forwarded) - 1) :
                  \E j \in 6..15 : Forwarded[i] = req.history[j]

\* C1 witness: the anthropic strategy has been called for a history of 15 turns
\* with system turns among the last 10, and forwards fewer than 11 messages.
C1_Witness ==
    /\ ChatCalled
    /\ Len(req.history) = 15
    /\ req.provider = "anthropic"
    /\ \E i \in 6..15 : req.history[i].role = "system"
    /\ Len(Forwarded) < 11

\* C2, as stated: the sequence handed to the provider is the last min(n, 10)
\* turns of the history in their order, followed by the new user turn.
C2_RecentTurnsThenMessage ==
    ChatCalled =>
        LET n == Len(req.history)
            k == Min(n, 10)
        IN  /\ Len(Forwarded) = k + 1
            /\ \A i \in 1..k : Forwarded[i] = req.history[n - k + i]
            /\ Forwarded[k + 1] = UserTurn(req.text)

\* C2, amended: the sequence handed to the provider is, in their original
\* order, the last min(n, 10) turns of the history (for anthropic: those of
\* them that are not system turns), followed by exactly one new user turn; no
\* turn older than the 10 most recent is forwarded.
C2_KeptTurnsInOrderThenMessage ==
    ChatCalled =>
        LET k == Cardinality(KeptTurns)
        IN  /\ Len(Forwarded) = k + 1
            /\ \A j \in 1..k : Forwarded[j] = req.history[Nth(KeptTurns, j)]
            /\ Forwarded[k + 1] = UserTurn(req.text)

\* C2 witness: a call whose history is longer than 10 turns, so that turns were
\* dropped, and which forwards more than one retained turn.
C2_Witness ==
    /\ ChatCalled
    /\ Len(req.history) > 10
    /\ Len(Forwarded) > 2
    /\ Forwarded[1] # req.history[1]

\* C3: the anthropic strategy forwards no system turn, and forwards every other
\* turn of the truncated history, the new user turn last; the openai, deepseek,
\* perplexity and microsoft strategies forward the truncated history as it is,
\* system turns included.
C3_SystemFilterOnlyAnthropic ==
    ChatCalled =>
        LET front == SubSeq(Forwarded, 1, Len(Forwarded) - 1)
            recent == SubSeq(req.history, Len(req.history) - Min(Len(req.history), 10) + 1,
                             Len(req.history))
        IN  /\ Forwarded[Len(Forwarded)] = UserTurn(req.text)
            /\ IF req.provider = "anthropic"
               THEN /\ \A i \in 1..Len(Forwarded) : Forwarded[i].role # "system"
                    /\ \A i \in 1..Len(recent) :
                          recent[i].role # "system" =>
                              \E j \in 1..Len(front) : front[j] = recent[i]
                    /\ \A j \in 1..Len(front) :
                          \E i \in 1..Len(recent) : front[j] = recent[i]
               ELSE /\ req.provider \in {"openai", "deepseek", "perplexity", "microsoft"}
                    /\ front = recent

\* C3 witness: the anthropic strategy has been called with a system turn among
\* the recent turns (the filter removed something).
C3_Witness ==
    /\ ChatCalled
    /\ req.provider = "anthropic"
    /\ \E i \in RecentTurns : req.history[i].role = "system"
    /\ Len(Forwarded) <= Cardinality(RecentTurns)

\* the request in hand names one of the seven providers
NamesProvider == req.kind # "none" /\ req.provider \in ProviderIds

\* the credentials of the request's provider were all set at startup
Configured == Credentials[req.provider] \subseteq env

\* the request carries every field its handler requires
RequiredPresent ==
    /\ req.model # ""
    /\ req.text # ""
    /\ req.kind = "translate" => req.targetLang # ""

\* the request's message or text is not blank
NonBlank == Trim(req.text) # ""

\* the request was answered 400 and no outbound call was made for it
Rejected400 == pc = "done" /\ res.status = 400 /\ outbound = <<>>

\* C4, as stated: isAvailable(id) is true exactly when id is one of the seven
\* providers and all its credentials (for microsoft the key and the endpoint)
\* were set at startup; it is false for every other identifier.
C4_AvailableIffCredentials ==
    \A id \in RequestProviders :
        isProviderAvailable(clients, id)
            <=> (id \in ProviderIds /\ Credentials[id] \subseteq env)

\* C5: a chat, translate or detect-language request naming a provider whose
\* credentials are not all configured is answered 400 and no outbound call is
\* made for it; when its required fields are present, the error is the
\* provider-unavailable one.
C5_UnconfiguredProviderRejected ==
    (NamesProvider /\ ~Configured) =>
        /\ Rejected400
        /\ RequiredPresent =>
              res.error = "Provider " \o req.provider \o " is not available"

\* C5 witness: a complete detect-language request for canva, which has no
\* credential, has been answered.
C5_Witness ==
    /\ req.kind = "detect"
    /\ req.provider = "canva"
    /\ ~Configured
    /\ RequiredPresent
    /\ pc = "done"
    /\ res.status = 400

\* C6, as stated: in every call type, a request naming an available provider
\* and a model that is not in that provider's catalog is answered 400 with the
\* unknown-model error, and no outbound call is made for it.
C6_UnknownModelRejected ==
    (NamesProvider /\ Configured /\ RequiredPresent /\ NonBlank
        /\ ~ModelListed(req.provider, req.model)) =>
        /\ Rejected400
        /\ res.error = "Model " \o req.model \o " not available for " \o req.provider

\* C7, as stated: a request whose message or text is empty after trimming, or a
\* translate request without a target language, is answered 400 and no
\* outbound call is made for it.
C7_BlankInputRejected ==
    (NamesProvider
        /\ (Trim(req.text) = "" \/ (req.kind = "translate" /\ req.targetLang = ""))) =>
        Rejected400

\* C8, as stated: for each call type and each of the seven providers, a request
\* that passed validation issues one outbound call, to that provider's backend.
C8_EveryProviderDispatched ==
    (NamesProvider /\ Configured /\ RequiredPresent /\ NonBlank
        /\ ModelListed(req.provider, req.model)) =>
        /\ Len(outbound) = 1
        /\ outbound[1].backend = req.provider

\* C9, as stated: chat(P, M, "hello", []) for an available provider P and a
\* model M of its catalog, when no upstream call failed or came back without a
\* text, answers 200 with a non-empty text, tokensUsed >= 1 and cost >= 0.
C9_HelloAnswered ==
    (/\ pc = "done"
     /\ NamesProvider /\ Configured /\ ModelListed(req.provider, req.model)
     /\ req.kind = "chat" /\ req.text = "hello" /\ req.history = <<>>
     /\ upstream.kind \in {"none", "text"}
     /\ upstream.kind = "text" => upstream.text # "") =>
        /\ res.status = 200
        /\ res.textType = "string"
        /\ res.text # ""
        /\ res.tokensUsed >= 1
        /\ res.cost >= 0

\* the text ends with " response unavailable"
IsPlaceholder(text) ==
    /\ Len(text) > 21
    /\ SubSeq(text, Len(text) - 20, Len(text)) = " response unavailable"

\* C10, as stated: whenever the upstream answered 2xx without the expected text
\* field, the request is answered 200 with the provider's
\* "<provider> response unavailable" placeholder as its text.
C10_PlaceholderOnMissingText ==
    (pc = "done" /\ NonBlank /\ upstream.kind \in {"no_choice", "no_text"}) =>
        /\ res.status = 200
        /\ res.textType = "string"
        /\ IsPlaceholder(res.text)

\* C11: a provider call that ends in a network error, a non-2xx status or a
\* thrown SDK exception ends its request with a 500 response that carries the
\* error's message and no result, and it is not retried: a request never has
\* more than one outbound call, and a failed one has exactly the one.
C11_FailedCallAnswered500NotRetried ==
    /\ Len(outbound) <= 1
    /\ Failed(upstream) =>
          /\ pc = "done"
          /\ Len(outbound) = 1
          /\ res.status = 500
          /\ res.error # ""
          /\ res.textType = "none"

\* a translation whose upstream call was refused with a non-2xx status
C11_Witness ==
    /\ req.kind = "translate"
    /\ upstream.kind = "http_error"
    /\ Len(outbound) = 1
    /\ res.status = 500

\* the request in hand is a chat, translate or detect-language request
Answerable == req.kind \in {"chat", "translate", "detect"}

\* the response is one whole body: a 200 with the result and no error, or a
\* 400 / 500 with an error message and no result field
WholeResponse ==
    \/ /\ res.status = 200
       /\ res.error = ""
       /\ res.textType # "none"
       /\ req.kind \in {"chat", "translate"} => res.tokensUsed >= 1
       /\ req.kind = "detect" => res.languageCode # ""
    \/ /\ res.status \in {400, 500}
       /\ res.error # ""
       /\ res.textType = "none"
       /\ res.tokensUsed = 0
       /\ res.cost = 0
       /\ res.languageCode = ""

\* each error the handlers raise is answered with a non-2xx status
ErrorsAreNon2xx ==
    /\ (req.provider = "" \/ ~RequiredPresent) => res.status = 400
    /\ (NamesProvider /\ ~Configured) => res.status = 400
    /\ (req.kind \in {"chat", "translate"} /\ ~ModelListed(req.provider, req.model)) =>
          res.status = 400
    /\ Failed(upstream) => res.status = 500

TranslateCalled == req.kind = "translate" /\ outbound # <<>>

\* sub occurs in s
Contains(s, sub) ==
    \E i \in 1..(Len(s) - Len(sub) + 1) : SubSeq(s, i, i + Len(sub) - 1) = sub

\* s ends with suffix
EndsWith(s, suffix) ==
    /\ Len(s) >= Len(suffix)
    /\ SubSeq(s, Len(s) - Len(suffix) + 1, Len(s)) = suffix

\* the instruction the translate call carries
Instruction == outbound[1].messages[1].content

\* the request's text between double quotes
QuotedText == "\"" \o req.text \o "\""

\* the instruction up to the quoted text
InstructionHead == SubSeq(Instruction, 1, Len(Instruction) - Len(QuotedText))

\* the English names of the language table
DirectoryNames == {SUPPORTED_LANGUAGES[c] : c \in DOMAIN SUPPORTED_LANGUAGES}

\* the name the instruction gives the target: its English name in the
\* language table, and the code as it came when the table lacks it
TargetName ==
    IF req.targetLang \in DOMAIN SUPPORTED_LANGUAGES
    THEN SUPPORTED_LANGUAGES[req.targetLang] ELSE req.targetLang

SourceName ==
    IF req.sourceLang \in DOMAIN SUPPORTED_LANGUAGES
    THEN SUPPORTED_LANGUAGES[req.sourceLang] ELSE "auto-detect"

C15_SameLanguageNeverDispatched ==
    (req.kind = "translate" /\ req.sourceLang = req.targetLang /\ req.sourceLang # "auto") =>
        /\ outbound = <<>>
        /\ pc = "done"
        /\ res.status = 400

\* the codes of the language table whose English name is the detected
\* language the response reports, ignoring case
MatchingCodes ==
    {c \in DOMAIN SUPPORTED_LANGUAGES :
        toLowerCase(SUPPORTED_LANGUAGES[c]) = toLowerCase(res.text)}

\* looking up the English name of a code gives that code back
LookupInvertsTable ==
    \A c \in DOMAIN SUPPORTED_LANGUAGES : LanguageCodeOf(SUPPORTED_LANGUAGES[c]) = c

\* C16: the languageCode of a detect-language response is the one code of the
\* language table whose English name equals the detected language ignoring
\* case ("Spanish" gives "es"), and "unknown" when no name matches (as for
\* "Klingon"); and the lookup from name to code inverts the table: the name of
\* every code c is looked up as c.
C16_LanguageCodeInvertsTable ==
    (req.kind = "detect" /\ pc = "done" /\ res.status = 200) =>
        /\ Cardinality(MatchingCodes) <= 1
        /\ MatchingCodes # {} => res.languageCode \in MatchingCodes
        /\ MatchingCodes = {} => res.languageCode = "unknown"
        /\ res.text = "Spanish" => res.languageCode = "es"
        /\ res.text = "Klingon" => res.languageCode = "unknown"
        /\ LookupInvertsTable

\* the provider answered "spanish" in lower case and the response says "es"
C16_Witness ==
    /\ req.kind = "detect"
    /\ pc = "done"
    /\ res.text = "spanish"
    /\ res.languageCode = "es"

\* the providers whose credentials were all set at startup
ConfiguredProviders == {p \in ProviderIds : Credentials[p] \subseteq env}

\* C17: the body of GET /api/models has exactly the providers whose
\* credentials are configured as its keys, each with its full catalog
\* (modelId -> displayName) of AVAILABLE_MODELS; a provider without credentials
\* is not in it; and a chat request naming a listed provider and one of its
\* listed models passes chat's provider and model validation (is not answered
\* 400). The body is built without an outbound call.
C17_ModelsListsAvailableCatalogs ==
    (req.kind = "models" /\ pc = "done") =>
        /\ res.status = 200
        /\ DOMAIN res.models = ConfiguredProviders
        /\ \A p \in DOMAIN res.models : res.models[p] = AVAILABLE_MODELS[p]
        /\ \A p \in DOMAIN res.models : \A m \in DOMAIN res.models[p] :
              ChatReceive(clients, ChatReq(p, m, "hello", <<>>)).res.status # 400
        /\ outbound = <<>>

\* the models were listed on a server that has no anthropic credential
C17_Witness ==
    /\ req.kind = "models"
    /\ pc = "done"
    /\ "ANTHROPIC_API_KEY" \notin env
    /\ DOMAIN res.models = ProviderIds \ {"anthropic"}
    /\ "gpt-4" \in DOMAIN res.models["openai"]

\* C18, as stated: the body of GET /api/health has the seven ProviderIds as its
\* keys; the value of provider P is true exactly when P's credentials are
\* configured, which is exactly when P is in the body of GET /api/models; no
\* outbound call is made.
C18_HealthKeysAreProviderIds ==
    (req.kind = "health" /\ pc = "done") =>
        /\ DOMAIN res.health = ProviderIds
        /\ \A p \in ProviderIds : res.health[p] <=> (Credentials[p] \subseteq env)
        /\ \A p \in ProviderIds : res.health[p] <=> (p \in DOMAIN ModelsBody(clients))
        /\ outbound = <<>>

\* C18, amended: the keys of the body are the keys of the clients object: the
\* seven ProviderIds and azureSpeech; the value of every key is true exactly
\* when its credentials are configured (for azureSpeech the speech key and
\* region); for the seven providers that is exactly when the provider is in
\* the body of GET /api/models; no outbound call is made.
C18_HealthKeysAreClientKeys ==
    (req.kind = "health" /\ pc = "done") =>
        /\ res.status = 200
        /\ DOMAIN res.health = ProviderIds \cup {"azureSpeech"}
        /\ \A k \in DOMAIN res.health : res.health[k] <=> (Credentials[k] \subseteq env)
        /\ \A p \in ProviderIds : res.health[p] <=> (p \in DOMAIN ModelsBody(clients))
        /\ outbound = <<>>

\* health was reported on a server that has no deepseek credential
C18_Witness ==
    /\ req.kind = "health"
    /\ pc = "done"
    /\ "DEEPSEEK_API_KEY" \notin env
    /\ ~res.health["deepseek"]
    /\ res.health["openai"]
    /\ res.health["azureSpeech"]

\* the length of the request's text followed by the text the response
\* returns, joined as `+` joins them (a null or missing text joins as the
\* word "null" or "undefined")
JoinedLength == Len(req.text) + Len(Stringify(res.textType, res.text))

\* C19: the tokensUsed of every chat and translate response is the ceiling of
\* a quarter of the length of the request's text joined with the returned
\* text: the least integer whose fourfold reaches that length. It is never
\* negative, and at least 1 when the request's text is not empty.
C19_TokensUsedIsCeilingOfQuarter ==
    (req.kind \in {"chat", "translate"} /\ pc = "done" /\ res.status = 200) =>
        /\ res.tokensUsed \in Nat
        /\ 4 * res.tokensUsed >= JoinedLength
        /\ 4 * (res.tokensUsed - 1) < JoinedLength
        /\ req.text # "" => res.tokensUsed >= 1

\* "hello" answered "Hi there!": 14 characters, 4 tokens
C19_Witness ==
    /\ req.kind = "chat"
    /\ pc = "done"
    /\ req.text = "hello"
    /\ res.text = "Hi there!"
    /\ res.tokensUsed = 4

\* the rate of a model in units of 1e-8 dollar per token: the table's
\* constant, and 0.000002 for an id the table does not list
RateOf(model) ==
    IF model \in DOMAIN costPerToken THEN costPerToken[model] ELSE DefaultCostPerToken

Alone(e, r, reply) ==
    LET step == Receive(MakeClients(e), r)
    IN  IF step.pc = "done" THEN step.res ELSE Finish(r, reply)

SentCalls == {manager.calls[i] : i \in {j \in (1..MaxSends) : manager.calls[j].pc # "idle"}}

\* the sendMessage calls that threw after sending
FailedCalls == {c \in SentCalls : c.pc = "failed"}

\* C22, as stated: a sendMessage call that fails after sending leaves
\* conversationHistory equal to what it was when the call started, whatever
\* ran on the manager while the call was waiting for its response.
C22_FailureRestoresHistory ==
    \A c \in FailedCalls : c.ended = c.started

\* the other half of C22: a sendMessage call rejected before sending (no model
\* selected, blank message) leaves the manager's history and calls as they were
RejectedSendTouchesNothing ==
    [][manager'.last = Last("sendMessage", "", "", TRUE)
          /\ (\A i \in (1..MaxSends) : manager'.calls[i].pc = manager.calls[i].pc)
       => manager'.conversationHistory = manager.conversationHistory]_vars

\* the messages the chat endpoint forwards for a sendMessage call
ForwardedFor(c) == Receive(clients, c.request).outbound[1].messages

\* the sendMessage calls whose request the chat endpoint forwards to a provider
ForwardedCalls ==
    {c \in SentCalls :
        c.endpoint = "/api/chat" /\ Receive(clients, c.request).pc = "awaiting"}

\* C23, as stated: the sequence the chat endpoint forwards for a sendMessage
\* call is the retained turns of the exchanges before the call followed by the
\* new user message, which occurs once, as the final turn.
C23_NewMessageForwardedOnce ==
    \A c \in ForwardedCalls :
        ForwardedFor(c) = ChatMessages(c.request.provider, c.message, c.started)

C25_SelectionNamesAvailableModel ==
    \/ manager.currentProvider = "null" /\ manager.currentModel = "null"
    \/ /\ manager.currentProvider \in ProviderIds
       /\ manager.providers[manager.currentProvider].available
       /\ manager.currentModel \in DOMAIN manager.providers[manager.currentProvider].models

\* the other half of C25: autoSelectModel selects the first model of the first
\* available provider in priority order, and changes no selection when no
\* provider is available
AutoSelectTakesFirstInPriority ==
    [][manager'.last.op = "autoSelectModel" =>
          LET up == {k \in 1..Len(priorityOrder) :
                        manager.providers[priorityOrder[k]].available}
          IN  IF up = {}
              THEN /\ manager'.currentProvider = manager.currentProvider
                   /\ manager'.currentModel = manager.currentModel
              ELSE LET first == priorityOrder[CHOOSE k \in up : \A j \in up : k <= j]
                   IN  /\ manager'.currentProvider = first
                       /\ manager'.currentModel = CatalogOrder[first][1]]_vars

\* the in-memory list holds at most 50 entries, newest first, and they are the
\* newest ones kept since the list was last empty: no entry but the oldest is
\* ever dropped
NewestFirstBounded ==
    /\ Len(archive.translationHistory) <= HistoryLimit
    /\ \A i \in 1..Len(archive.translationHistory) :
          archive.translationHistory[i] = archive.kept - i + 1

\* the page was handed the 10 newest entries, or all when there are fewer
ShownNewest == archive.shown = Take(archive.translationHistory, ShownLimit)

\* C26, as stated: after any addToHistory or handleClearHistory the list holds
\* at most 50 entries newest first, the copy in localStorage equals it, and
\* the page is handed its 10 newest entries.
C26_HistoryBoundedAndPersisted ==
    archive.lastWrite # "none" =>
        /\ NewestFirstBounded
        /\ ShownNewest
        /\ archive.stored = Stored(archive.translationHistory)

\* C26, amended: as above, the copy in localStorage equalling the list
\* whenever the browser accepted the last write; a refused write leaves the
\* copy of the last accepted one.
C26_HistoryBoundedAndPersistedIfWritten ==
    /\ NewestFirstBounded
    /\ ShownNewest
    /\ archive.lastWrite = "stored" =>
          archive.stored = Stored(archive.translationHistory)
    /\ archive.lastWrite = "refused" =>
          archive.stored # Stored(archive.translationHistory)

\* the list is full, entries have been dropped from its end, and the copy in
\* localStorage is the list
C26_Witness ==
    /\ Len(archive.translationHistory) = HistoryLimit
    /\ archive.kept > HistoryLimit + 1
    /\ archive.translationHistory[HistoryLimit] > 1
    /\ archive.lastWrite = "stored"
    /\ archive.stored.list = archive.translationHistory
    /\ Len(archive.shown) = ShownLimit

\* C27: while isTranslating is true a trigger dispatches nothing, so at most
\* one /api/translate request is outstanding, and it is outstanding exactly
\* while isTranslating is true and the button disabled: the flag is set
\* before the request leaves and reset when it finishes, with a result or
\* with an error, which eventually happens.
C27_SingleTranslationInFlight ==
    /\ [](/\ ui.outstanding <= 1
          /\ ui.isTranslating <=> ui.outstanding = 1
          /\ ui.disabled <=> ui.isTranslating)
    /\ [][ui.isTranslating => ui'.started = ui.started]_vars
    /\ (ui.isTranslating ~> ~ui.isTranslating)

\* a translation is under way, and a trigger that came meanwhile was ignored
C27_Witness ==
    /\ ui.isTranslating
    /\ ui.ignored
    /\ ui.outstanding = 1
    /\ ui.request.kind = "translate"
    /\ ui.started = 2

\* a request for language detection is sent in this step
DetectionSent == Len(detector'.requests) = Len(detector.requests) + 1

\* the request submitted last
LatestDetection == Len(detector.requests)

\* every request has been answered, the latest one with 200
DetectionsAnswered ==
    /\ detector.requests # <<>>
    /\ \A id \in 1..LatestDetection : detector.answers[id] # "pending"
    /\ detector.answers[LatestDetection] # "failed"

\* what the indicator shows: a language code, or nothing
Shown(indicator) == indicator.code

\* what the indicator shows for the answer to the latest request
LatestShown == Shown(updateDetectedLanguage(detector.answers[LatestDetection], LatestDetection))

\* C28, as stated: a detection request is sent only after 1000 ms without a
\* qualifying change and carries the text of the last such change; and once
\* the answers are in, the indicator shows the answer for the most recently
\* submitted text (or was cleared since).
C28_DebouncedDetectionShowsLatest ==
    /\ [][DetectionSent =>
            /\ detector.quiet >= DetectWait
            /\ detector'.requests[Len(detector'.requests)] = detector.timer.text]_vars
    /\ [](DetectionsAnswered =>
            detector.indicator.request = 0 \/ Shown(detector.indicator) = LatestShown)

\* the first sentence of C28 alone: a request is sent only after the wait has
\* passed since the last qualifying change, once for each time the timer
\* fires, with the trimmed text of that change
DetectionOnlyAfterQuiet ==
    [][DetectionSent =>
          /\ detector.quiet >= DetectWait
          /\ detector.timer.armed /\ ~detector'.timer.armed
          /\ detector'.requests[Len(detector'.requests)] = detector.timer.text]_vars

\* no request carries a text of 10 characters or fewer
NoDetectionOfShortText ==
    \A id \in 1..Len(detector.requests) : Len(detector.requests[id]) > 10

\* no two stored users share a user_id
UserIdsUnique ==
    \A i, j \in 1..Len(auth.users) :
        i # j => auth.users[i].user_id # auth.users[j].user_id

\* C29, as stated: whatever the interleaving of registerUser calls, no two
\* stored users share an email and no two share a user_id.
C29_EmailsAndIdsUnique ==
    /\ UserIdsUnique
    /\ \A i, j \in 1..Len(auth.users) :
          i # j => auth.users[i].email # auth.users[j].email

\* the other half of C29: a registerUser that finds the email registered
\* fails with 'Email already registered' and leaves users and nextId alone
RegisteredEmailRefused ==
    [][\A i \in (1..MaxAuthCalls) :
          auth.calls[i].pc = "idle" /\ auth'.calls[i].op = "register" =>
             IF getUserByEmail(auth.users, auth'.calls[i].email) # NoUser
             THEN /\ auth'.calls[i].pc = "failed"
                  /\ auth'.calls[i].error = "Email already registered"
                  /\ auth'.users = auth.users
                  /\ auth'.nextId = auth.nextId
             ELSE auth'.calls[i].pc = "hashing"]_vars

\* C30, as stated: whatever the interleaving of resetPassword calls, a token
\* issued by generatePasswordResetToken changes the password at most once.
C30_TokenUsedAtMostOnce ==
    \A token \in DOMAIN auth.uses : auth.uses[token] <= 1

\* the rest of C30, for calls that do not overlap: resetPassword with a token
\* that was never issued, was used by a finished call, or is older than 15
\* minutes fails, changes no password, and leaves the token removed
DeadTokenRefused ==
    [][\A i \in (1..MaxAuthCalls) :
          auth.calls[i].pc = "idle" /\ auth'.calls[i].op = "reset" =>
             LET token == auth'.calls[i].token
                 dead == \/ token \notin DOMAIN auth.resetTokens
                         \/ auth.now > auth.resetTokens[token].expiresAt
             IN  /\ dead <=> auth'.calls[i].pc = "failed"
                 /\ dead => token \notin DOMAIN auth'.resetTokens
                 /\ auth'.users = auth.users]_vars

\* a token is gone once a call that used it has finished
UsedTokenRemoved ==
    \A i \in (1..MaxAuthCalls) :
        auth.calls[i].op = "reset" /\ auth.calls[i].pc = "done" =>
            auth.calls[i].token \notin DOMAIN auth.resetTokens

=============================================================================
